---- MODULE Spec2Model ----
(***************************************************************************)
(* A model of the RARC archive codec of rarc.py: the in-memory tree of    *)
(* Directory and File objects, the encoder Archive.write_arc, the decoder *)
(* Archive.from_file / Directory.from_node, the sidecar flag model        *)
(* FileListing and the compression adapter CompressionSetting.            *)
(*                                                                         *)
(* Conventions.  A byte buffer is a sequence over 0..255.  A Python str   *)
(* is a sequence of code points.  Python None in an integer field is the  *)
(* value None.  A Directory is a record                                   *)
(*   [name, nodeindex, files, subdirs]                                    *)
(* whose files and subdirs are the dicts of the object in insertion       *)
(* order (every key equals the name of its value, as from_dir and         *)
(* from_node build them); the parent reference is the enclosing record.   *)
(* A File is a record [name, fileid, hashcode, flags, data].              *)
(* An operation that can raise returns a record with a field err that     *)
(* holds the exception's name, or NoErr.                                  *)
(***************************************************************************)
EXTENDS Integers, Sequences, FiniteSets, TLC

None == -1
NoErr == "ok"

\* ---------------------------------------------------------------- bytes

Zeros(n) == [i \in 1..n |-> 0]

Min(a, b) == IF a < b THEN a ELSE b

write_uint32(val) ==
    <<(val \div 16777216) % 256, (val \div 65536) % 256,
      (val \div 256) % 256, val % 256>>

write_uint16(val) == <<(val \div 256) % 256, val % 256>>

write_uint8(val) == <<val % 256>>

\* pack(">I"/">H"/">B", val) raises struct.error outside the field's range
\* and for None.
CanPack(val, top) == val # None /\ val >= 0 /\ val <= top

\* write_pad32 with 16 for 32.
write_pad16(buf) == buf \o Zeros((16 - (Len(buf) % 16)) % 16)

write_pad32(buf) == buf \o Zeros((32 - (Len(buf) % 32)) % 32)

\* f.seek(pos); f.write(bytes) inside a buffer that is long enough.
Overwrite(buf, pos, bytes) ==
    [i \in 1..Len(buf) |->
        IF i > pos /\ i <= pos + Len(bytes) THEN bytes[i - pos] ELSE buf[i]]

\* f.seek(pos); f.read(n): short or empty at the end of the buffer.
ReadAt(buf, pos, n) ==
    IF pos >= Len(buf) THEN <<>>
    ELSE SubSeq(buf, pos + 1, Min(pos + n, Len(buf)))

\* A 32-bit field read from a buffer.  Values of 2^24 and more are all
\* represented by U32Big: every buffer of the model is far shorter, so such
\* a value is an offset, an index or a size beyond the end whatever it is.
U32Big == 16777216

read_uint32(b) ==
    IF b[1] # 0 THEN U32Big ELSE b[2] * 65536 + b[3] * 256 + b[4]

read_uint16(b) == b[1] * 256 + b[2]

\* ---------------------------------------------------------------- text

\* str.encode("shift-jis") on one code point: ASCII is kept, the yen sign and
\* the overline share the bytes of backslash and tilde, half-width katakana
\* are single bytes, HIRAGANA LETTER A stands for the double-byte characters.
\* <<>> stands for UnicodeEncodeError.
sjis_encode_char(c) ==
    IF c < 128 THEN <<c>>
    ELSE IF c = 165 THEN <<92>>
    ELSE IF c = 8254 THEN <<126>>
    ELSE IF c >= 65377 /\ c <= 65439 THEN <<c - 65216>>
    ELSE IF c = 12354 THEN <<130, 160>>
    ELSE <<>>

RECURSIVE sjis_encode(_)
sjis_encode(s) ==
    IF s = <<>> THEN <<>> ELSE sjis_encode_char(Head(s)) \o sjis_encode(Tail(s))

sjis_encodable(s) == \A i \in 1..Len(s) : sjis_encode_char(s[i]) # <<>>

\* bytes.decode("shift-jis"): the result as a record [err, str].
RECURSIVE sjis_decode(_)
sjis_decode(b) ==
    IF b = <<>> THEN [err |-> NoErr, str |-> <<>>]
    ELSE IF b[1] < 128 THEN
        LET r == sjis_decode(Tail(b))
        IN  [err |-> r.err, str |-> <<b[1]>> \o r.str]
    ELSE IF b[1] >= 161 /\ b[1] <= 223 THEN
        LET r == sjis_decode(Tail(b))
        IN  [err |-> r.err, str |-> <<b[1] + 65216>> \o r.str]
    ELSE IF Len(b) >= 2 /\ b[1] = 130 /\ b[2] = 160 THEN
        LET r == sjis_decode(Tail(Tail(b)))
        IN  [err |-> r.err, str |-> <<12354>> \o r.str]
    ELSE [err |-> "UnicodeDecodeError", str |-> <<>>]

\* str.upper() on the code points the model encodes.
upper_char(c) == IF c >= 97 /\ c <= 122 THEN c - 32 ELSE c

upper(s) == [i \in 1..Len(s) |-> upper_char(s[i])]

\* the characters str.strip() removes (ASCII range)
Whitespace == {9, 10, 11, 12, 13, 28, 29, 30, 31, 32}

IsBlank(s) == \A i \in 1..Len(s) : s[i] \in Whitespace

Slash == 47
Backslash == 92
Dot == <<46>>
DotDot == <<46, 46>>

\* ---------------------------------------------------------------- flags

FILE == 1
DIRECTORY == 2
COMPRESSED == 4
DATA_FILE == 16
REL_FILE == 32
YAZ0 == 128

HasBit(flags, bit) == (flags \div bit) % 2 = 1

from_flags(flags) ==
    [is_file |-> HasBit(flags, FILE), is_dir |-> HasBit(flags, DIRECTORY),
     is_compressed |-> HasBit(flags, COMPRESSED),
     is_data |-> HasBit(flags, DATA_FILE), is_rel |-> HasBit(flags, REL_FILE),
     is_yaz0 |-> HasBit(flags, YAZ0)]

\* to_flags without "if self.is_yaz0: result |= YAZ0".
to_flags_no_yaz0(m) ==
    (IF m.is_file THEN FILE ELSE 0) + (IF m.is_dir THEN DIRECTORY ELSE 0)
    + (IF m.is_compressed THEN COMPRESSED ELSE 0)
    + (IF m.is_data THEN DATA_FILE ELSE 0) + (IF m.is_rel THEN REL_FILE ELSE 0)

to_flags(m) ==
    (IF m.is_file THEN FILE ELSE 0) + (IF m.is_dir THEN DIRECTORY ELSE 0)
    + (IF m.is_compressed THEN COMPRESSED ELSE 0)
    + (IF m.is_data THEN DATA_FILE ELSE 0) + (IF m.is_rel THEN REL_FILE ELSE 0)
    + (IF m.is_yaz0 THEN YAZ0 ELSE 0)

default ==
    [is_file |-> TRUE, is_dir |-> FALSE, is_compressed |-> FALSE,
     is_data |-> TRUE, is_rel |-> FALSE, is_yaz0 |-> FALSE]

\* str.split(sep): the pieces of s between the occurrences of sep; a string
\* without sep is one piece, the empty string too.
RECURSIVE split(_, _)
split(s, sep) ==
    IF \A i \in 1..Len(s) : s[i] # sep THEN <<s>>
    ELSE LET k == CHOOSE i \in 1..Len(s) :
                    s[i] = sep /\ \A j \in 1..(i - 1) : s[j] # sep
         IN  <<SubSeq(s, 1, k - 1)>> \o split(SubSeq(s, k + 1, Len(s)), sep)

Pipe == 124
TokYaz0Compressed == <<121, 97, 122, 48, 95, 99, 111, 109, 112, 114, 101, 115, 115, 101, 100>>
TokRel == <<114, 101, 108>>

\* The loop of from_string over the settings: a setting that is neither of
\* the two tokens changes nothing.
RECURSIVE from_string_loop(_, _, _)
from_string_loop(result, k, m) ==
    IF k > Len(result) THEN m
    ELSE from_string_loop(result, k + 1,
            IF result[k] = TokYaz0Compressed
            THEN [m EXCEPT !.is_compressed = TRUE, !.is_yaz0 = TRUE]
            ELSE IF result[k] = TokRel
            THEN [m EXCEPT !.is_data = FALSE, !.is_rel = TRUE]
            ELSE m)

\* FileListing.from_string: [err, meta].
from_string(string) ==
    [err |-> NoErr,
     meta |-> from_string_loop(split(string, Pipe), 1,
                [is_file |-> TRUE, is_dir |-> FALSE, is_compressed |-> FALSE,
                 is_data |-> TRUE, is_rel |-> FALSE, is_yaz0 |-> FALSE])]

\* ---------------------------------------------------------------- hash

hash_multiplier(name) ==
    IF Len(name) + 1 = 2 THEN 2 ELSE IF Len(name) + 1 >= 3 THEN 3 ELSE 1

\* hash_loop with the letter added before the multiplication.
RECURSIVE hash_loop_add_first(_, _, _)
hash_loop_add_first(name, multiplier, hash) ==
    IF name = <<>> THEN hash
    ELSE hash_loop_add_first(Tail(name), multiplier,
                             (((hash + Head(name)) % 65536) * multiplier) % 65536)

RECURSIVE hash_loop(_, _, _)
hash_loop(name, multiplier, hash) ==
    IF name = <<>> THEN hash
    ELSE hash_loop(Tail(name), multiplier,
                   (((hash * multiplier) % 65536) + Head(name)) % 65536)

hash_name(name) == hash_loop(name, hash_multiplier(name), 0)

\* ---------------------------------------------------------------- string table

StringTable == [strings |-> <<>>, stringmap |-> <<>>]

InTable(st, s) == \E i \in 1..Len(st.stringmap) : st.stringmap[i][1] = s

\* write_string without the test "string not in self._stringmap".
write_string_again(st, s) ==
    [strings |-> st.strings \o sjis_encode(s) \o <<0>>,
     stringmap |-> Append(st.stringmap, <<s, Len(st.strings)>>)]

write_string(st, s) ==
    IF InTable(st, s) THEN st
    ELSE [strings |-> st.strings \o sjis_encode(s) \o <<0>>,
          stringmap |-> Append(st.stringmap, <<s, Len(st.strings)>>)]

get_string_offset(st, s) ==
    LET i == CHOOSE i \in 1..Len(st.stringmap) : st.stringmap[i][1] = s
    IN  st.stringmap[i][2]

\* StringTable.size
stringtable_size(st) == Len(st.strings)

RECURSIVE write_strings(_, _)
write_strings(st, names) ==
    IF names = <<>> THEN st
    ELSE write_strings(write_string(st, Head(names)), Tail(names))

\* ---------------------------------------------------------------- tree

Names(items) == [i \in 1..Len(items) |-> items[i].name]

HasName(items, name) == \E i \in 1..Len(items) : items[i].name = name

IndexOf(items, name) == CHOOSE i \in 1..Len(items) : items[i].name = name

\* DictSet with a new key put first instead of last.
DictSetFront(items, item) ==
    IF \E i \in 1..Len(items) : items[i].name = item.name
    THEN [items EXCEPT ![CHOOSE i \in 1..Len(items) : items[i].name = item.name] = item]
    ELSE <<item>> \o items

\* dict[item.name] = item: a present key keeps its place, a new key is last.
DictSet(items, item) ==
    IF HasName(items, item.name)
    THEN [items EXCEPT ![IndexOf(items, item.name)] = item]
    ELSE Append(items, item)

\* A reference to a Directory object of a tree: the positions, in subdirs,
\* of the path from the root to it.
RECURSIVE DirAt(_, _)
DirAt(root, ref) ==
    IF ref = <<>> THEN root ELSE DirAt(root.subdirs[Head(ref)], Tail(ref))

\* SetNodeIndex with "dir._nodeindex += i" for "dir._nodeindex = i".
RECURSIVE SetNodeIndexAdd(_, _, _)
SetNodeIndexAdd(root, ref, i) ==
    IF ref = <<>>
    THEN [root EXCEPT !.nodeindex = (IF @ = None THEN 0 ELSE @) + i]
    ELSE [root EXCEPT !.subdirs[Head(ref)] = SetNodeIndexAdd(@, Tail(ref), i)]

RECURSIVE SetNodeIndex(_, _, _)
SetNodeIndex(root, ref, i) ==
    IF ref = <<>> THEN [root EXCEPT !.nodeindex = i]
    ELSE [root EXCEPT !.subdirs[Head(ref)] = SetNodeIndex(@, Tail(ref), i)]

\* Directory.absolute_path: the names along the parent chain, "/"-joined.
RECURSIVE absolute_path(_, _)
absolute_path(root, ref) ==
    IF ref = <<>> THEN root.name
    ELSE root.name \o <<Slash>> \o absolute_path(root.subdirs[Head(ref)], Tail(ref))

\* Directory.walk: one element per yield, in yield order, with the reference
\* of the yielding Directory.
RECURSIVE walk(_, _, _)
RECURSIVE walk_subdirs(_, _, _, _)
walk(dir, dirpath, ref) ==
    <<[dirpath |-> dirpath, ref |-> ref,
       dirnames |-> Names(dir.subdirs), filenames |-> Names(dir.files)]>>
    \o walk_subdirs(dir, dirpath, ref, 1)

walk_subdirs(dir, dirpath, ref, k) ==
    IF k > Len(dir.subdirs) THEN <<>>
    ELSE walk(dir.subdirs[k], dirpath \o <<Slash>> \o dir.subdirs[k].name,
              Append(ref, k))
         \o walk_subdirs(dir, dirpath, ref, k + 1)

root_walk(root) == walk(root, root.name, <<>>)

\* ---------------------------------------------------------------- paths

IsSep(c) == c = Slash \/ c = Backslash

\* split_path: [name, rest, has_rest]; has_rest = FALSE is rest = None.
split_path(path) ==
    IF \E i \in 1..Len(path) : IsSep(path[i]) THEN
        LET i == CHOOSE i \in 1..Len(path) :
                    IsSep(path[i]) /\ \A j \in 1..(i - 1) : ~IsSep(path[j])
        IN  IF Len(path) = i
            THEN [name |-> SubSeq(path, 1, i - 1), rest |-> <<>>, has_rest |-> FALSE]
            ELSE [name |-> SubSeq(path, 1, i - 1),
                  rest |-> SubSeq(path, i + 1, Len(path)), has_rest |-> TRUE]
    ELSE [name |-> path, rest |-> <<>>, has_rest |-> FALSE]

\* Directory.__getitem__: [err, kind, ref, index]; kind "dir" with the
\* reference of the Directory found, kind "file" with the reference of the
\* Directory that holds the File and the File's position.
RECURSIVE dir_getitem(_, _, _)
dir_getitem(root, ref, path) ==
    LET self == DirAt(root, ref)
        sp == split_path(path)
    IN  IF ~sp.has_rest \/ IsBlank(sp.rest) THEN
            IF HasName(self.subdirs, sp.name) THEN
                [err |-> NoErr, kind |-> "dir",
                 ref |-> Append(ref, IndexOf(self.subdirs, sp.name)), index |-> 0]
            ELSE IF HasName(self.files, sp.name) THEN
                [err |-> NoErr, kind |-> "file", ref |-> ref,
                 index |-> IndexOf(self.files, sp.name)]
            ELSE [err |-> "FileNotFoundError", kind |-> "", ref |-> <<>>, index |-> 0]
        ELSE IF HasName(self.files, sp.name) THEN
            [err |-> "RuntimeError", kind |-> "", ref |-> <<>>, index |-> 0]
        ELSE IF ~HasName(self.subdirs, sp.name) THEN
            [err |-> "KeyError", kind |-> "", ref |-> <<>>, index |-> 0]
        ELSE dir_getitem(root, Append(ref, IndexOf(self.subdirs, sp.name)), sp.rest)

\* Archive.__getitem__
archive_getitem(root, path) ==
    LET sp == split_path(path)
    IN  IF ~sp.has_rest \/ IsBlank(sp.rest) THEN
            IF sp.name # root.name
            THEN [err |-> "FileNotFoundError", kind |-> "", ref |-> <<>>, index |-> 0]
            ELSE [err |-> NoErr, kind |-> "dir", ref |-> <<>>, index |-> 0]
        ELSE dir_getitem(root, <<>>, sp.rest)

\* The tree with the Directory at ref replaced by dir.
RECURSIVE ReplaceDir(_, _, _)
ReplaceDir(root, ref, dir) ==
    IF ref = <<>> THEN dir
    ELSE [root EXCEPT !.subdirs[Head(ref)] = ReplaceDir(@, Tail(ref), dir)]

\* isinstance(name, cls) for the name that split_path returns: a str is an
\* instance of neither File nor Directory.
str_isinstance(name, cls) == FALSE

\* Directory.__setitem__ on the Directory at ref: [err, root].  An entry is
\* [type, value] with type "File" or "Directory"; the name of the path is
\* the key the value is stored under.
dir_setitem(root, ref, path, entry) ==
    LET self == DirAt(root, ref)
        sp == split_path(path)
        item == [entry.value EXCEPT !.name = sp.name]
    IN  IF ~sp.has_rest \/ IsBlank(sp.rest) THEN
            IF str_isinstance(sp.name, "File") THEN
                IF HasName(self.subdirs, sp.name)
                THEN [err |-> "FileExistsError", root |-> root]
                ELSE [err |-> NoErr,
                      root |-> ReplaceDir(root, ref,
                                  [self EXCEPT !.files = DictSet(@, item)])]
            ELSE IF str_isinstance(sp.name, "Directory") THEN
                IF HasName(self.files, sp.name)
                THEN [err |-> "FileExistsError", root |-> root]
                ELSE [err |-> NoErr,
                      root |-> ReplaceDir(root, ref,
                                  [self EXCEPT !.subdirs = DictSet(@, item)])]
            ELSE [err |-> "TypeError", root |-> root]
        ELSE IF HasName(self.files, sp.name) THEN
            [err |-> "RuntimeError", root |-> root]
        ELSE IF ~HasName(self.subdirs, sp.name) THEN
            [err |-> "KeyError", root |-> root]
        ELSE [err |-> dir_getitem(root, Append(ref, IndexOf(self.subdirs, sp.name)),
                                  sp.rest).err,
              root |-> root]

\* Archive.__setitem__: [err, root]
archive_setitem(root, path, entry) ==
    LET sp == split_path(path)
    IN  IF ~sp.has_rest \/ IsBlank(sp.rest) THEN
            IF sp.name # root.name THEN [err |-> "RuntimeError", root |-> root]
            ELSE IF entry.type = "Directory" THEN [err |-> NoErr, root |-> entry.value]
            ELSE [err |-> "TypeError", root |-> root]
        ELSE dir_setitem(root, <<>>, sp.rest, entry)

\* ---------------------------------------------------------------- wszst

CompressionSetting(yaz0_fast, wszst) == [yaz0_fast |-> yaz0_fast, wszst |-> wszst]

\* What the external compressor does with the bytes of its input file: the
\* result is some buffer that is shorter than the input, as long as it, or
\* longer.
wszst_output(kind, filedata) ==
    IF kind = "shorter" THEN SubSeq(filedata, 1, Len(filedata) - 1)
    ELSE IF kind = "same" THEN
        [i \in 1..Len(filedata) |-> IF i = 1 THEN (filedata[i] + 1) % 256 ELSE filedata[i]]
    ELSE <<89, 97, 122, 48>> \o filedata

\* One run of the environment of run_wszst: whether writing the input file
\* fails, how subprocess.run ends ("ok", "nonzero" exit, "missing" tool),
\* whether the tool created its output file, what it wrote, and whether
\* reading the output file fails.
ToolRun(write_fails, status, wrote_out, kind, read_fails) ==
    [write_fails |-> write_fails, status |-> status, wrote_out |-> wrote_out,
     kind |-> kind, read_fails |-> read_fails]

GoodTool(kind) == ToolRun(FALSE, "ok", TRUE, kind, FALSE)

\* CompressionSetting.run_wszst: [err, data, left]; left is the set of the
\* temporary files that exist when the call ends.
run_wszst(self, filedata, run) ==
    IF ~self.wszst THEN [err |-> "RuntimeError", data |-> <<>>, left |-> {}]
    ELSE IF run.write_fails THEN
        [err |-> "OSError", data |-> <<>>, left |-> {"abspath"}]
    ELSE IF run.status # "ok" THEN
        [err |-> IF run.status = "missing" THEN "FileNotFoundError"
                 ELSE "CalledProcessError",
         data |-> <<>>,
         left |-> IF run.status = "nonzero" /\ run.wrote_out THEN {"outpath"} ELSE {}]
    ELSE IF ~run.wrote_out THEN
        [err |-> "FileNotFoundError", data |-> <<>>, left |-> {"abspath"}]
    ELSE IF run.read_fails THEN
        [err |-> "OSError", data |-> <<>>, left |-> {"abspath", "outpath"}]
    ELSE LET compressed_data == wszst_output(run.kind, filedata)
         IN  [err |-> NoErr,
              data |-> IF Len(filedata) >= Len(compressed_data)
                       THEN compressed_data ELSE filedata,
              left |-> {}]

\* ---------------------------------------------------------------- encoder

\* A filelisting maps a path to [fileid, meta]; None and {} behave alike in
\* write_arc and are both the empty mapping.
NoListing == <<>>

InListing(filelisting, filepath) == filepath \in DOMAIN filelisting

RECURSIVE walk_names(_)
walk_names(w) ==
    IF w = <<>> THEN <<>>
    ELSE Head(w).dirnames \o Head(w).filenames \o walk_names(Tail(w))

RECURSIVE count_subdirs(_)
count_subdirs(w) ==
    IF w = <<>> THEN 0 ELSE Len(Head(w).dirnames) + count_subdirs(Tail(w))

arc_header(nodecount) ==
    <<82, 65, 82, 67>> \o <<70, 79, 79, 32>> \o write_uint32(32)
    \o <<66, 65, 82, 32>> \o Zeros(16)
    \o write_uint32(nodecount) \o write_uint32(32) \o Zeros(4)
    \o <<240, 240, 240, 240>> \o Zeros(4) \o <<240, 240, 240, 240>> \o Zeros(8)

nodetype(i, name) ==
    IF i = 0 THEN <<82, 79, 79, 84>>
    ELSE LET t == SubSeq(sjis_encode(upper(name)), 1, Min(4, Len(sjis_encode(upper(name)))))
         IN  t \o Zeros(4 - Len(t))

\* The first loop over walk(): self[dirpath], the node index, the node record.
\* acc = [err, root, f, dirlist, first]; i counts from 0.
RECURSIVE node_pass(_, _, _, _)
node_pass(w, i, st, acc) ==
    IF i >= Len(w) \/ acc.err # NoErr THEN acc
    ELSE
        LET info == w[i + 1]
            got == archive_getitem(acc.root, info.dirpath)
        IN  IF got.err # NoErr THEN [acc EXCEPT !.err = got.err]
            ELSE
                LET isdir == got.kind = "dir"
                    root1 == IF isdir THEN SetNodeIndex(acc.root, got.ref, i)
                             ELSE acc.root
                    name == IF isdir THEN DirAt(root1, got.ref).name
                            ELSE DirAt(root1, got.ref).files[got.index].name
                    entrycount == Len(info.dirnames) + Len(info.filenames)
                    rec == nodetype(i, name)
                           \o write_uint32(get_string_offset(st, name))
                           \o write_uint16(hash_name(name))
                           \o write_uint16(entrycount + 2)
                           \o write_uint32(acc.first)
                IN  node_pass(w, i + 1, st,
                        [err |-> NoErr, root |-> root1, f |-> acc.f \o rec,
                         dirlist |-> Append(acc.dirlist, [isdir |-> isdir, ref |-> got.ref]),
                         first |-> acc.first + entrycount + 2])

\* The paths of the file entries a call has begun, in order, after one
\* more: each is the path the call tests in its table before it writes
\* anything of the entry.
file_paths(looked, filepath) == Append(looked, filepath)

\* The loop over the files of one directory.
\* acc = [err, f, data, fileid, left, looked]; looked holds the paths of
\* the entries begun so far.  An entry whose data cannot be stored ends the call
\* after the first 12 bytes of the entry.
RECURSIVE file_pass(_, _, _, _, _, _, _, _)
file_pass(files, k, abspath, st, compression_settings, filelisting, env, acc) ==
    IF k > Len(files) \/ acc.err # NoErr THEN acc
    ELSE
        LET file == files[k]
            filepath == abspath \o <<Slash>> \o file.name
            listed == InListing(filelisting, filepath)
            fileid == IF listed THEN filelisting[filepath].fileid ELSE acc.fileid
            filemeta == IF listed THEN filelisting[filepath].meta ELSE default
            recompress == filemeta.is_yaz0 /\ filemeta.is_compressed
                          /\ compression_settings.wszst
            ran == IF recompress /\ env.as_main
                   THEN run_wszst(compression_settings, file.data, env.run)
                   ELSE [err |-> NoErr, data |-> file.data, left |-> {}]
            stored == ran.data
            left == acc.left \cup ran.left
            looked == file_paths(acc.looked, filepath)
            begun == acc.f \o write_uint16(fileid)
                     \o write_uint16(hash_name(file.name))
                     \o write_uint8(to_flags(filemeta)) \o write_uint8(0)
                     \o write_uint16(get_string_offset(st, file.name))
                     \o write_uint32(Len(acc.data))
        IN  IF ~CanPack(fileid, 65535)
            THEN [acc EXCEPT !.err = "struct.error", !.looked = looked]
            ELSE IF recompress /\ ~env.as_main
            THEN [acc EXCEPT !.err = "NameError", !.f = begun, !.looked = looked]
            ELSE IF ran.err # NoErr
            THEN [acc EXCEPT !.err = ran.err, !.left = left, !.f = begun,
                             !.looked = looked]
            ELSE file_pass(files, k + 1, abspath, st, compression_settings,
                    filelisting, env,
                    [err |-> NoErr,
                     f |-> acc.f \o write_uint16(fileid)
                           \o write_uint16(hash_name(file.name))
                           \o write_uint8(to_flags(filemeta)) \o write_uint8(0)
                           \o write_uint16(get_string_offset(st, file.name))
                           \o write_uint32(Len(acc.data))
                           \o write_uint32(Len(stored)) \o write_uint32(0),
                     data |-> write_pad32(acc.data \o stored),
                     fileid |-> fileid + 1,
                     left |-> left,
                     looked |-> looked])

\* One directory entry; child is a node index, None, or NoParent for the
\* parent of the root.
NoParent == -2

dir_entry(st, subdirname, child) ==
    <<255, 255>> \o write_uint16(hash_name(subdirname)) \o <<2, 0>>
    \o write_uint16(get_string_offset(st, subdirname))
    \o (IF child = NoParent THEN <<255, 255, 255, 255>> ELSE write_uint32(child))
    \o write_uint32(16) \o write_uint32(0)

\* chain(specialdirs, dir.subdirs.items()) of the directory at ref, as
\* <<name, child node index>> pairs.
dir_children(root, ref) ==
    LET dir == DirAt(root, ref)
        parent == IF ref = <<>> THEN NoParent
                  ELSE DirAt(root, SubSeq(ref, 1, Len(ref) - 1)).nodeindex
    IN  <<<<Dot, dir.nodeindex>>, <<DotDot, parent>>>>
        \o [k \in 1..Len(dir.subdirs) |->
                <<dir.subdirs[k].name, dir.subdirs[k].nodeindex>>]

RECURSIVE subdir_pass(_, _, _, _)
subdir_pass(children, k, st, acc) ==
    IF k > Len(children) \/ acc.err # NoErr THEN acc
    ELSE IF children[k][2] = None
    THEN [acc EXCEPT !.err = "struct.error",
                     !.f = @ \o <<255, 255>> \o write_uint16(hash_name(children[k][1]))
                           \o <<2, 0>>
                           \o write_uint16(get_string_offset(st, children[k][1]))]
    ELSE subdir_pass(children, k + 1, st,
            [acc EXCEPT !.f = @ \o dir_entry(st, children[k][1], children[k][2])])

\* The loop over dirlist.
RECURSIVE entry_pass(_, _, _, _, _, _, _, _)
entry_pass(root, dirlist, d, st, compression_settings, filelisting, env, acc) ==
    IF d > Len(dirlist) \/ acc.err # NoErr THEN acc
    ELSE IF ~dirlist[d].isdir THEN [acc EXCEPT !.err = "AttributeError"]
    ELSE
        LET ref == dirlist[d].ref
            acc1 == file_pass(DirAt(root, ref).files, 1, absolute_path(root, ref),
                        st, compression_settings, filelisting, env, acc)
            acc2 == subdir_pass(dir_children(root, ref), 1, st, acc1)
        IN  entry_pass(root, dirlist, d + 1, st, compression_settings,
                       filelisting, env, acc2)

\* The end of write_arc: f2 is f after the entries and their padding, f3
\* after the string table and its padding; the data follow, and the
\* placeholders of the header are overwritten.
backpatch(first, current_file_entry_offset, f2, f3, data) ==
    LET current_stringtable_offset == Len(f2)
        stringtablesize == Len(f3) - Len(f2)
        current_data_offset == Len(f3)
        rarc_size == Len(f3) + Len(data)
    IN  Overwrite(
            Overwrite(
                Overwrite(f3 \o data, 4, write_uint32(rarc_size)),
                12,
                write_uint32(current_data_offset - 32)
                \o write_uint32(rarc_size - current_data_offset)
                \o write_uint32(rarc_size - current_data_offset)),
            40,
            write_uint32(first)
            \o write_uint32(current_file_entry_offset - 32)
            \o write_uint32(stringtablesize)
            \o write_uint32(current_stringtable_offset - 32))

\* write_arc from the string table on: p2 is the state after the loop over
\* dirlist, f1 is f after the nodes and their padding.
write_arc_tail(root, f1, first, st, p2) ==
    IF p2.err # NoErr
    THEN [err |-> p2.err, root |-> root, bytes |-> p2.f, left |-> p2.left,
          looked |-> p2.looked]
    ELSE [err |-> NoErr, root |-> root,
          bytes |-> backpatch(first, Len(f1), write_pad32(p2.f),
                        write_pad32(write_pad32(p2.f) \o st.strings), p2.data),
          left |-> p2.left, looked |-> p2.looked]

\* write_arc from the file entries on: p1 is the state after the node loop.
write_arc_entries(p1, st, compression_settings, filelisting, maxindex, env) ==
    write_arc_tail(p1.root, write_pad32(p1.f), p1.first, st,
        entry_pass(p1.root, p1.dirlist, 1, st, compression_settings, filelisting,
            env,
            [err |-> p1.err,
             f |-> IF p1.err = NoErr THEN write_pad32(p1.f) ELSE p1.f,
             data |-> <<>>,
             fileid |-> maxindex, left |-> {}, looked |-> <<>>]))

\* write_arc from the header on: w is the walk of the tree, st the string
\* table with every name.
write_arc_nodes(root, w, st, compression_settings, filelisting, maxindex, env) ==
    write_arc_entries(
        node_pass(w, 0, st,
            [err |-> NoErr, root |-> root, f |-> arc_header(1 + count_subdirs(w)),
             dirlist |-> <<>>, first |-> 0]),
        st, compression_settings, filelisting, maxindex, env)

\* The names write_arc writes to the string table, in order.
arc_names(root, w) == <<Dot, DotDot, root.name>> \o walk_names(w)

write_arc_walked(root, w, names, compression_settings, filelisting, maxindex, env) ==
    IF \E i \in 1..Len(names) : ~sjis_encodable(names[i]) THEN
        [err |-> "UnicodeEncodeError", root |-> root, bytes |-> <<>>, left |-> {},
         looked |-> <<>>]
    ELSE write_arc_nodes(root, w, write_strings(StringTable, names),
            compression_settings, filelisting, maxindex, env)

\* Archive.write_arc: [err, root, bytes, left, looked]; root is the tree as
\* the call leaves it (node indices assigned), bytes the content of f when the
\* call ends (what was written before the exception, when it raises), left
\* the temporary files the call leaves behind (a run of the external tool
\* that leaves any also ends the call), looked the paths of the file entries
\* the call has begun, in order: the paths it has tested in its table.
write_arc(root, compression_settings, filelisting, maxindex, env) ==
    write_arc_walked(root, root_walk(root), arc_names(root, root_walk(root)),
        compression_settings, filelisting, maxindex, env)

\* ---------------------------------------------------------------- yaz0

Yaz0Magic == <<89, 97, 122, 48>>
RarcMagic == <<82, 65, 82, 67>>

\* compress_fast: the header (magic, decompressed size, 8 reserved bytes) and
\* the input as literals, one code byte 0xFF before every 8 bytes.
RECURSIVE yaz0_literals(_)
yaz0_literals(data) ==
    IF data = <<>> THEN <<>>
    ELSE <<255>> \o SubSeq(data, 1, Min(8, Len(data)))
         \o yaz0_literals(SubSeq(data, 9, Len(data)))

compress_fast(data) ==
    Yaz0Magic \o write_uint32(Len(data)) \o Zeros(8) \o yaz0_literals(data)

\* write_arc_compressed after its call of write_arc, whose result is temp.
compress_temp(temp, compression_settings, env) ==
    IF temp.err # NoErr THEN [temp EXCEPT !.bytes = <<>>]
    ELSE IF compression_settings.yaz0_fast THEN
        [temp EXCEPT !.bytes = compress_fast(temp.bytes)]
    ELSE IF compression_settings.wszst THEN
        LET data == run_wszst(compression_settings, temp.bytes, env.run)
        IN  [err |-> data.err, root |-> temp.root, bytes |-> data.data,
             left |-> temp.left \cup data.left, looked |-> temp.looked]
    ELSE [temp EXCEPT !.bytes = <<>>]

\* Archive.write_arc_compressed: [err, root, bytes, left]; bytes is what the
\* call wrote to f.  With neither setting it writes nothing.
write_arc_compressed(root, compression_settings, filelisting, maxindex, env) ==
    compress_temp(write_arc(root, compression_settings, filelisting, maxindex, env),
                  compression_settings, env)

\* Archive.write_arc_uncompressed: [err, root, bytes, left].  The call of
\* write_arc passes the default settings and neither filelisting nor
\* maxindex, so write_arc takes its defaults None and 0.
write_arc_uncompressed(root, filelisting, maxindex, env) ==
    write_arc(root, CompressionSetting(FALSE, FALSE), NoListing, 0, env)

\* A back-reference copies n bytes from dist bytes before the end of the
\* output, byte by byte: the last dist bytes repeat.
yaz0_copy(out, dist, n) ==
    out \o [k \in 1..n |-> out[Len(out) - dist + 1 + ((k - 1) % dist)]]

\* One bit of a code byte: a set bit copies one byte of the input, a clear
\* bit is a back-reference.  st = [err, p, out]; p is the read position.
yaz0_bit(buf, code, bit, st) ==
    IF (code \div (2 ^ (7 - bit))) % 2 = 1 THEN
        IF st.p >= Len(buf) THEN [st EXCEPT !.err = "IndexError"]
        ELSE [err |-> NoErr, p |-> st.p + 1, out |-> Append(st.out, buf[st.p + 1])]
    ELSE IF st.p + 2 > Len(buf) THEN [st EXCEPT !.err = "IndexError"]
    ELSE
        LET b1 == buf[st.p + 1]
            b2 == buf[st.p + 2]
            dist == (b1 % 16) * 256 + b2 + 1
            long == b1 \div 16 = 0
            n == IF long THEN (IF st.p + 3 > Len(buf) THEN 0 ELSE buf[st.p + 3] + 18)
                 ELSE b1 \div 16 + 2
        IN  IF (long /\ st.p + 3 > Len(buf)) \/ dist > Len(st.out)
            THEN [st EXCEPT !.err = "IndexError"]
            ELSE [err |-> NoErr, p |-> st.p + (IF long THEN 3 ELSE 2),
                  out |-> yaz0_copy(st.out, dist, n)]

\* The bits of one code byte, most significant first.
RECURSIVE yaz0_group(_, _, _, _, _)
yaz0_group(buf, size, code, bit, st) ==
    IF bit = 8 \/ st.err # NoErr \/ Len(st.out) >= size THEN st
    ELSE yaz0_group(buf, size, code, bit + 1, yaz0_bit(buf, code, bit, st))

\* The groups: a code byte and what its bits say, until the output has the
\* size of the header.
RECURSIVE yaz0_groups(_, _, _)
yaz0_groups(buf, size, st) ==
    IF st.err # NoErr \/ Len(st.out) >= size THEN st
    ELSE IF st.p >= Len(buf) THEN [st EXCEPT !.err = "IndexError"]
    ELSE yaz0_groups(buf, size,
            yaz0_group(buf, size, buf[st.p + 1], 0, [st EXCEPT !.p = @ + 1]))

\* decompress: [err, data]
decompress(buf) ==
    IF ReadAt(buf, 0, 4) # Yaz0Magic THEN [err |-> "RuntimeError", data |-> <<>>]
    ELSE IF Len(buf) < 8 THEN [err |-> "struct.error", data |-> <<>>]
    ELSE
        LET size == read_uint32(ReadAt(buf, 4, 4))
            st == yaz0_groups(buf, size, [err |-> NoErr, p |-> 16, out |-> <<>>])
        IN  [err |-> st.err, data |-> IF st.err = NoErr THEN st.out ELSE <<>>]

\* ---------------------------------------------------------------- decoder

\* The loop "while f.read(1) != b'\x00'" ends at the first zero byte at or
\* after the start of the name; there is none when HasTerminator is false,
\* and the loop then never ends: f.read(1) is b"" at the end of the buffer.
HasTerminator(buf, start) == \E p \in (start + 1)..Len(buf) : buf[p] = 0

NameLength(buf, start) ==
    (CHOOSE p \in (start + 1)..Len(buf) :
        buf[p] = 0 /\ \A q \in (start + 1)..(p - 1) : buf[q] # 0) - 1 - start

Hang == "hang"

\* stringtable_get_name: [err, str]; err = Hang when the call never returns.
stringtable_get_name(buf, stringtable_offset, offset) ==
    LET start == stringtable_offset + offset
    IN  IF ~HasTerminator(buf, start) THEN [err |-> Hang, str |-> <<>>]
        ELSE sjis_decode(ReadAt(buf, start, NameLength(buf, start)))

\* from_fileentry reading the data at filedataoffset, without the start of
\* the data section.
from_fileentry_nobase(buf, stringtable_offset, globaldataoffset, fileid, hashcode, flags, nameoffset, filedataoffset, datasize) ==
    [name |-> stringtable_get_name(buf, stringtable_offset, nameoffset).str,
     fileid |-> fileid, hashcode |-> hashcode, flags |-> flags,
     data |-> ReadAt(buf, filedataoffset, datasize)]

\* File.from_fileentry
from_fileentry(buf, stringtable_offset, globaldataoffset, fileid, hashcode, flags, nameoffset, filedataoffset, datasize) ==
    [name |-> stringtable_get_name(buf, stringtable_offset, nameoffset).str,
     fileid |-> fileid, hashcode |-> hashcode, flags |-> flags,
     data |-> ReadAt(buf, globaldataoffset + filedataoffset, datasize)]

\* The names from_node skips: the two special entries and the empty name.
is_special(name) == name = Dot \/ name = DotDot \/ name = <<>>

\* "entry is a sub directory"
is_subdir(flags) == HasBit(flags, DIRECTORY) /\ ~HasBit(flags, FILE)

\* is_recursive with the node being expanded as the only node of the path.
is_recursive_self(nodeindex, currentnodeindex, parents) ==
    nodeindex = currentnodeindex

\* "nodeindex in newparents", newparents being the node being expanded and
\* its ancestors.
is_recursive(nodeindex, currentnodeindex, parents) ==
    LET newparents == <<currentnodeindex>> \o parents
    IN  \E k \in 1..Len(newparents) : newparents[k] = nodeindex

\* The 20 bytes of a file entry, unpacked with ">HHBBHIII".
unpack_entry(e) ==
    [fileid |-> read_uint16(SubSeq(e, 1, 2)),
     hashcode |-> read_uint16(SubSeq(e, 3, 4)),
     flags |-> e[5],
     nameoffset |-> read_uint16(SubSeq(e, 7, 8)),
     filedataoffset |-> read_uint32(SubSeq(e, 9, 12)),
     datasize |-> read_uint32(SubSeq(e, 13, 16))]

\* Directory.from_node: [err, dir].  ctx holds the arguments every call
\* passes on unchanged: buf, stringtable_offset, globalentryoffset,
\* dataoffset, nodelist.
RECURSIVE from_node(_, _, _, _)
RECURSIVE from_node_entries(_, _, _, _, _, _)
from_node(ctx, name, currentnodeindex, parents) ==
    IF currentnodeindex >= Len(ctx.nodelist)
    THEN [err |-> "IndexError", dir |-> <<>>]
    ELSE
        LET node == ctx.nodelist[currentnodeindex + 1]
            newdir == [name |-> IF node.has_name THEN node.name ELSE name,
                       nodeindex |-> currentnodeindex,
                       files |-> <<>>, subdirs |-> <<>>]
        IN  from_node_entries(ctx, node, currentnodeindex, parents, 0,
                              [err |-> NoErr, dir |-> newdir])

from_node_entries(ctx, node, currentnodeindex, parents, i, acc) ==
    IF i >= node.entrycount \/ acc.err # NoErr THEN acc
    ELSE
        LET offset == ctx.globalentryoffset + (node.entryoffset + i) * 20
            e == ReadAt(ctx.buf, offset, 20)
        IN  IF Len(e) < 20 THEN [acc EXCEPT !.err = "struct.error"]
            ELSE
            LET fileid == unpack_entry(e).fileid
                hashcode == unpack_entry(e).hashcode
                flags == unpack_entry(e).flags
                nameoffset == unpack_entry(e).nameoffset
                filedataoffset == unpack_entry(e).filedataoffset
                datasize == unpack_entry(e).datasize
                nm == stringtable_get_name(ctx.buf, ctx.stringtable_offset, nameoffset)
                newparents == <<currentnodeindex>> \o parents
            IN  IF nm.err # NoErr THEN [acc EXCEPT !.err = nm.err]
                ELSE IF is_special(nm.str) THEN
                    from_node_entries(ctx, node, currentnodeindex, parents, i + 1, acc)
                ELSE IF is_subdir(flags) THEN
                    IF is_recursive(filedataoffset, currentnodeindex, parents)
                    THEN from_node_entries(ctx, node, currentnodeindex, parents,
                                           i + 1, acc)
                    ELSE
                        LET sub == from_node(ctx, nm.str, filedataoffset, newparents)
                        IN  IF sub.err # NoErr THEN [acc EXCEPT !.err = sub.err]
                            ELSE from_node_entries(ctx, node, currentnodeindex,
                                    parents, i + 1,
                                    [acc EXCEPT !.dir.subdirs = DictSet(@, sub.dir)])
                ELSE
                    LET file == from_fileentry(ctx.buf, ctx.stringtable_offset,
                                    ctx.dataoffset, fileid, hashcode, flags,
                                    nameoffset, filedataoffset, datasize)
                    IN  from_node_entries(ctx, node, currentnodeindex, parents,
                            i + 1, [acc EXCEPT !.dir.files = DictSet(@, file)])

\* The 12 bytes of node record i after its 4-byte type, as the loop of
\* from_file reads them one record after the other from offset 64.
read_nodedata(buf, i) == ReadAt(buf, 64 + 16 * i + 4, 12)

\* unpack(">IHHI", nodedata)
unpack_node(nodedata) ==
    [nameoffset |-> read_uint32(SubSeq(nodedata, 1, 4)),
     entrycount |-> read_uint16(SubSeq(nodedata, 7, 8)),
     entryoffset |-> read_uint32(SubSeq(nodedata, 9, 12))]

\* The loop of from_file over the node records: [err, nodes].
RECURSIVE read_nodes(_, _, _, _, _)
read_nodes(buf, node_count, stringtable_offset, i, acc) ==
    IF i >= node_count \/ acc.err # NoErr THEN acc
    ELSE
        LET nodedata == read_nodedata(buf, i)
        IN  IF Len(nodedata) < 12 THEN [acc EXCEPT !.err = "struct.error"]
            ELSE
            LET nameoffset == unpack_node(nodedata).nameoffset
                entrycount == unpack_node(nodedata).entrycount
                entryoffset == unpack_node(nodedata).entryoffset
                nm == IF i = 0
                      THEN stringtable_get_name(buf, stringtable_offset, nameoffset)
                      ELSE [err |-> NoErr, str |-> <<>>]
            IN  IF nm.err # NoErr THEN [acc EXCEPT !.err = nm.err]
                ELSE read_nodes(buf, node_count, stringtable_offset, i + 1,
                        [acc EXCEPT !.nodes = Append(@,
                            [has_name |-> i = 0, name |-> nm.str,
                             entrycount |-> entrycount, entryoffset |-> entryoffset])])

\* open_file without the decompression step.
open_file_raw(file) ==
    IF ReadAt(file, 0, 4) # RarcMagic
    THEN [err |-> "RuntimeError", f |-> <<>>, decompressed |-> FALSE]
    ELSE [err |-> NoErr, f |-> file, decompressed |-> FALSE]

\* The start of Archive.from_file: the optional decompression and the check
\* of the container magic.  [err, f, decompressed]; f is the buffer that the
\* rest of from_file reads.
open_file(file) ==
    LET yaz0 == ReadAt(file, 0, 4) = Yaz0Magic
        dec == IF yaz0 THEN decompress(file) ELSE [err |-> NoErr, data |-> file]
    IN  IF dec.err # NoErr
        THEN [err |-> dec.err, f |-> <<>>, decompressed |-> yaz0]
        ELSE IF ReadAt(dec.data, 0, 4) # RarcMagic
        THEN [err |-> "RuntimeError", f |-> <<>>, decompressed |-> yaz0]
        ELSE [err |-> NoErr, f |-> dec.data, decompressed |-> yaz0]

\* The header fields from_file reads: [err, data_offset, node_count,
\* file_entry_offset, stringtable_offset].  The last field ends at byte 56.
read_header(buf) ==
    IF Len(buf) < 56
    THEN [err |-> "struct.error", data_offset |-> 0, node_count |-> 0,
          file_entry_offset |-> 0, stringtable_offset |-> 0]
    ELSE [err |-> NoErr,
          data_offset |-> read_uint32(ReadAt(buf, 12, 4)) + 32,
          node_count |-> read_uint32(ReadAt(buf, 32, 4)),
          file_entry_offset |-> read_uint32(ReadAt(buf, 44, 4)) + 32,
          stringtable_offset |-> read_uint32(ReadAt(buf, 52, 4)) + 32]

NoTree == <<>>

\* Archive.from_file after the check of the magic: [err, root]
from_rarc(buf) ==
    LET h == read_header(buf)
        nl == read_nodes(buf, h.node_count, h.stringtable_offset, 0,
                         [err |-> NoErr, nodes |-> <<>>])
    IN  IF h.err # NoErr THEN [err |-> h.err, root |-> NoTree]
        ELSE IF nl.err # NoErr THEN [err |-> nl.err, root |-> NoTree]
        ELSE IF nl.nodes = <<>> THEN [err |-> "IndexError", root |-> NoTree]
        ELSE
            LET r == from_node(
                        [buf |-> buf, stringtable_offset |-> h.stringtable_offset,
                         globalentryoffset |-> h.file_entry_offset,
                         dataoffset |-> h.data_offset, nodelist |-> nl.nodes],
                        nl.nodes[1].name, 0, <<>>)
            IN  [err |-> r.err, root |-> IF r.err = NoErr THEN r.dir ELSE NoTree]

\* Archive.from_file: [err, root, decompressed]
from_file(file) ==
    LET o == open_file(file)
        r == from_rarc(o.f)
    IN  IF o.err # NoErr
        THEN [err |-> o.err, root |-> NoTree, decompressed |-> o.decompressed]
        ELSE [err |-> r.err, root |-> r.root, decompressed |-> o.decompressed]

\* ---------------------------------------------------------------- inputs

MaxEntries == 3
MaxOps == 4

RootName == <<114>>
DirNames == {<<100>>, <<97>>}
FileNames == {<<97>>, <<99>>, <<98, 165>>}

\* The content of the scanned file of a name.
FileData(filename) ==
    IF filename = <<97>> THEN <<1, 2>> ELSE IF filename = <<99>> THEN <<3>> ELSE <<>>

\* File.from_file: a File read from a directory has no id, hash or flags.
file_from_file(filename, data) ==
    [name |-> filename, fileid |-> None, hashcode |-> None, flags |-> None,
     data |-> data]

\* The number of Directory and File objects of a tree.
RECURSIVE EntryCount(_)
RECURSIVE EntryCountAll(_)
EntryCount(dir) == 1 + Len(dir.files) + EntryCountAll(dir.subdirs)
EntryCountAll(dirs) ==
    IF dirs = <<>> THEN 0 ELSE EntryCount(Head(dirs)) + EntryCountAll(Tail(dirs))

\* The file dicts Directory.from_dir can build from at most n directory
\* entries with names in names.
RECURSIVE ScannedFiles(_, _)
ScannedFiles(names, n) ==
    {<<>>} \cup
    (IF n = 0 THEN {}
     ELSE UNION {{<<file_from_file(f, FileData(f))>> \o rest :
                    rest \in ScannedFiles(names \ {f}, n - 1)} :
                 f \in names})

\* Directory.from_dir: the directories (and the sequences of sibling
\* directories) it can build with at most n directories and files in all; a
\* name is a file or a directory of its parent, not both.
RECURSIVE ScannedDirs(_, _)
RECURSIVE ScannedSubdirs(_, _)
ScannedDirs(names, n) ==
    IF n = 0 THEN {}
    ELSE UNION {UNION {{[name |-> d, nodeindex |-> None, files |-> fl, subdirs |-> sd] :
                            sd \in ScannedSubdirs(DirNames \ {fl[i].name : i \in 1..Len(fl)},
                                                  n - 1 - Len(fl))} :
                       fl \in ScannedFiles(FileNames, n - 1)} :
                d \in names}

ScannedSubdirs(names, n) ==
    {<<>>} \cup
    UNION {{<<t>> \o rest :
                rest \in ScannedSubdirs(names \ {t.name}, n - EntryCount(t))} :
           t \in ScannedDirs(names, n)}

ScannedTrees == ScannedDirs({RootName}, MaxEntries)

\* A directory name that str.strip() empties: a tab.
BlankName == <<9>>

\* from_dir of the same directories on disk with every directory d named
\* with the tab instead.
RECURSIVE Blanked(_)
Blanked(dir) ==
    [name |-> IF dir.name = <<100>> THEN BlankName ELSE dir.name,
     nodeindex |-> dir.nodeindex,
     files |-> dir.files,
     subdirs |-> [k \in 1..Len(dir.subdirs) |-> Blanked(dir.subdirs[k])]]

BlankTrees == {Blanked(t) : t \in ScannedTrees} \ ScannedTrees

\* The archive of another tool for a tree whose directory is named with the
\* tab: the bytes write_arc gives for the directory name d, with the name
\* replaced in the string table.  (from_file reads neither the node type
\* nor the hash of a directory.)
Retitled(buf) ==
    [i \in 1..Len(buf) |->
        IF /\ i > read_uint32(ReadAt(buf, 52, 4)) + 32
           /\ i <= read_uint32(ReadAt(buf, 52, 4)) + 32 + read_uint32(ReadAt(buf, 48, 4))
           /\ buf[i] = 100
        THEN BlankName[1] ELSE buf[i]]

\* Archive.from_file of such archives: a root with one blank-named
\* directory and at most one file in all.
ForeignTrees ==
    {from_file(Retitled(
        write_arc(t, CompressionSetting(FALSE, FALSE), NoListing, 0,
                  [as_main |-> TRUE, run |-> GoodTool("same")]).bytes)).root :
        t \in {t \in ScannedTrees :
                    /\ Len(t.subdirs) = 1
                    /\ t.subdirs[1].name = <<100>>
                    /\ t.subdirs[1].subdirs = <<>>
                    /\ Len(t.files) + Len(t.subdirs[1].files) <= 1}}

\* The file paths of a tree as its walk gives them, dirpath + "/" + filename,
\* in the order of the walk.
RECURSIVE walk_paths(_)
walk_paths(w) ==
    IF w = <<>> THEN <<>>
    ELSE [k \in 1..Len(Head(w).filenames) |->
            Head(w).dirpath \o <<Slash>> \o Head(w).filenames[k]]
         \o walk_paths(Tail(w))

\* The files of the directories that self[dirpath] gives for the entries of
\* a walk, in the order in which write_arc goes through them: dirlist holds
\* the directory found under the path, whose files and absolute path are
\* used.  An entry that is not a directory ends the loop.
RECURSIVE dirlist_files(_, _)
dirlist_files(root, w) ==
    IF w = <<>> THEN <<>>
    ELSE LET got == archive_getitem(root, Head(w).dirpath)
         IN  IF got.err # NoErr \/ got.kind # "dir" THEN <<>>
             ELSE [k \in 1..Len(DirAt(root, got.ref).files) |->
                     [filepath |-> absolute_path(root, got.ref) \o <<Slash>>
                                   \o DirAt(root, got.ref).files[k].name,
                      file |-> DirAt(root, got.ref).files[k]]]
                  \o dirlist_files(root, Tail(w))

\* FileListing.from_string on the flag strings of the sidecar.
yaz0_compressed == from_string(TokYaz0Compressed).meta
rel == from_string(TokRel).meta

\* The sidecar's line for the k-th file of the walk.
ListingEntry(k) ==
    IF k % 2 = 1 THEN [fileid |-> 3, meta |-> yaz0_compressed]
    ELSE [fileid |-> 1, meta |-> rel]

\* The lines of a filelisting.txt, comments left out, for the paths with
\* an index in K, in order: [path, fileid, meta, bad]; entries[k] gives the
\* id and the flags of the k-th path.  bad marks a line that __main__ cannot
\* read (not two or three words, or an id that is no integer).
RECURSIVE ListedLines(_, _, _, _)
ListedLines(paths, entries, K, k) ==
    IF k > Len(paths) THEN <<>>
    ELSE (IF k \in K
          THEN <<[path |-> paths[k], fileid |-> entries[k].fileid,
                  meta |-> entries[k].meta, bad |-> FALSE]>>
          ELSE <<>>)
         \o ListedLines(paths, entries, K, k + 1)

\* The sidecars __main__ can read for a tree: any of the tree's files
\* listed under its path in the tree.
ListingFiles(root) ==
    LET paths == walk_paths(root_walk(root))
    IN  {ListedLines(paths, [k \in 1..Len(paths) |-> ListingEntry(k)], K, 1) :
            K \in SUBSET (1..Len(paths))}

\* The lines __main__ reads: the exception a bad line raises ends the
\* reading, and what was read before it is kept.
RECURSIVE lines_read(_)
lines_read(lines) ==
    IF lines = <<>> \/ Head(lines).bad THEN <<>>
    ELSE <<Head(lines)>> \o lines_read(Tail(lines))

\* filelisting as __main__ builds it: a later line of a path replaces an
\* earlier one.
main_filelisting(lines) ==
    [p \in {lines_read(lines)[i].path : i \in 1..Len(lines_read(lines))} |->
        LET i == CHOOSE i \in 1..Len(lines_read(lines)) :
                    /\ lines_read(lines)[i].path = p
                    /\ \A j \in (i + 1)..Len(lines_read(lines)) :
                            lines_read(lines)[j].path # p
        IN  [fileid |-> lines_read(lines)[i].fileid,
             meta |-> lines_read(lines)[i].meta]]

\* maxindex as __main__ computes it: it starts at 0 and is raised to the id
\* of every line read that is larger, whether or not a later line replaces
\* the line in filelisting.
main_maxindex(lines) ==
    LET ids == {0} \cup {lines_read(lines)[i].fileid :
                            i \in 1..Len(lines_read(lines))}
    IN  CHOOSE m \in ids : \A i \in ids : i <= m

\* A session: the compression settings, whether rarc.py runs as the main
\* module (the global compression_setting exists then) and what the external
\* tool does, and the lines of the sidecar.  The settings matter to
\* write_arc for a listed yaz0_compressed file only.
Sessions(lines) ==
    {[settings |-> CompressionSetting(FALSE, FALSE), as_main |-> TRUE,
      run |-> GoodTool("same"), lines |-> lines]}
    \cup
    (IF \E i \in 1..Len(lines_read(lines)) : lines_read(lines)[i].meta.is_yaz0
     THEN {[settings |-> CompressionSetting(FALSE, TRUE), as_main |-> m,
            run |-> GoodTool("shorter"), lines |-> lines] : m \in BOOLEAN}
     ELSE {})

\* ---------------------------------------------------------------- state

VARIABLES
    tree,        \* the root Directory of the Archive in memory
    filelisting, \* the override table of the session
    session,     \* compression settings and environment of the session
    out,         \* the bytes the last write produced
    src,         \* the tree as the last write received it
    prev,        \* the bytes the write before the last one produced
    err,         \* the exception the last operation raised, or NoErr
    hist,        \* the operations so far
    dec,         \* the call of Archive.from_file in progress, step by step
    tmpfiles,    \* the temporary files of run_wszst that exist
    parsed       \* the call of FileListing.from_string and its result

vars == <<tree, filelisting, session, out, src, prev, err, hist, dec, tmpfiles, parsed>>

\* No call of from_file in progress.
DecIdle ==
    [pc |-> "idle", f |-> <<>>, hdr |-> read_header(<<>>), i |-> 0, nodes |-> <<>>,
     stack |-> <<>>, start |-> 0, pos |-> 0, stringlen |-> 0, name |-> <<>>,
     entry |-> unpack_entry(Zeros(20)), err |-> NoErr, root |-> NoTree,
     warnings |-> 0]

\* No call of from_string made.
NotParsed == [pc |-> "idle", string |-> <<>>, err |-> NoErr, meta |-> default]

Init ==
    /\ tree \in ScannedTrees \cup BlankTrees \cup ForeignTrees
    /\ session \in UNION {Sessions(lines) : lines \in ListingFiles(tree)}
    /\ filelisting = main_filelisting(session.lines)
    /\ out = <<>>
    /\ src = <<>>
    /\ prev = <<>>
    /\ err = NoErr
    /\ hist = <<>>
    /\ dec = DecIdle
    /\ tmpfiles = {}
    /\ parsed = NotParsed

\* A name that encoding to and decoding from Shift-JIS gives back.
names_survive(name) ==
    /\ sjis_encodable(name)
    /\ stringtable_get_name(write_string(StringTable, name).strings, 0, 0).str = name

tree_names(root) ==
    LET w == root_walk(root)
        names == <<root.name>> \o walk_names(w)
    IN  {names[i] : i \in 1..Len(names)}

\* The table has the path of every file entry a call of write_arc has begun:
\* every test of the call in the table found the path.
lists_all(fl, looked) ==
    \A k \in 1..Len(looked) : InListing(fl, looked[k])

\* The table has every file path of the tree.
maps_all(fl, root) ==
    \A k \in 1..Len(walk_paths(root_walk(root))) :
        InListing(fl, walk_paths(root_walk(root))[k])

\* No entry of the tree is named ".", ".." or "", and every directory below
\* dir has a name that str.strip() does not empty, that holds no separator
\* and that no file beside it has.
RECURSIVE plain_names(_)
plain_names(dir) ==
    /\ \A k \in 1..Len(dir.files) : dir.files[k].name \notin {<<>>, Dot, DotDot}
    /\ \A k \in 1..Len(dir.subdirs) :
        /\ ~IsBlank(dir.subdirs[k].name)
        /\ dir.subdirs[k].name \notin {Dot, DotDot}
        /\ \A i \in 1..Len(dir.subdirs[k].name) : ~IsSep(dir.subdirs[k].name[i])
        /\ ~HasName(dir.files, dir.subdirs[k].name)
        /\ plain_names(dir.subdirs[k])

\* The entry of hist for a call of write_arc, with what holds of its
\* arguments: full (the table has the path of every file entry the call
\* began, the paths of looked), mapped (the
\* table has every file path of the tree), clean (every name is unchanged
\* by encoding and decoding it), named (plain_names, and no separator in
\* the name of the root).
WriteOp(listed, fl, root, looked) ==
    [op |-> "write_arc", listed |-> listed, full |-> lists_all(fl, looked),
     mapped |-> maps_all(fl, root),
     clean |-> \A n \in tree_names(root) : names_survive(n),
     named |-> /\ plain_names(root)
               /\ \A i \in 1..Len(root.name) : ~IsSep(root.name[i])]

ReadOp ==
    [op |-> "from_file", listed |-> FALSE, full |-> FALSE, mapped |-> FALSE,
     clean |-> FALSE, named |-> FALSE]

\* archive.write_arc(f, compression_setting, filelisting, maxindex) with the
\* session's override table, or without one.
WriteArc(use_listing) ==
    /\ Len(hist) < MaxOps
    /\ err = NoErr
    /\ use_listing => filelisting # NoListing
    /\ LET fl == IF use_listing THEN filelisting ELSE NoListing
       IN  \E r \in {write_arc(tree, session.settings, fl,
                        main_maxindex(IF use_listing THEN session.lines ELSE <<>>),
                        [as_main |-> session.as_main, run |-> session.run])} :
               /\ tree' = r.root
               /\ out' = r.bytes
               /\ err' = r.err
               /\ hist' = Append(hist, WriteOp(use_listing, fl, tree, r.looked))
    /\ src' = tree
    /\ prev' = out
    /\ UNCHANGED <<filelisting, session, dec, tmpfiles, parsed>>

\* Archive.from_file on the bytes last written.
FromFile ==
    /\ Len(hist) < MaxOps
    /\ err = NoErr
    /\ hist # <<>>
    /\ hist[Len(hist)].op # "from_file"
    /\ LET r == from_file(out)
       IN  /\ err' = r.err
           /\ tree' = IF r.err = NoErr THEN r.root ELSE tree
    /\ hist' = Append(hist, ReadOp)
    /\ UNCHANGED <<filelisting, session, out, src, prev, dec, tmpfiles, parsed>>

Next ==
    \/ \E use_listing \in BOOLEAN : WriteArc(use_listing)
    \/ FromFile

Spec == Init /\ [][Next]_vars

\* ---------------------------------------------------------------- round trips

\* The last n operations, oldest first (<<>> when there are fewer).
LastOps(n) == IF Len(hist) < n THEN <<>> ELSE SubSeq(hist, Len(hist) - n + 1, Len(hist))

IsWrite(o) == o.op = "write_arc"
IsRead(o) == o.op = "from_file"

\* Same hierarchy, directory names, file names and file content.
RECURSIVE SameShape(_, _)
SameShape(a, b) ==
    /\ a.name = b.name
    /\ Len(a.files) = Len(b.files)
    /\ \A k \in 1..Len(a.files) :
        a.files[k].name = b.files[k].name /\ a.files[k].data = b.files[k].data
    /\ Len(a.subdirs) = Len(b.subdirs)
    /\ \A k \in 1..Len(a.subdirs) : SameShape(a.subdirs[k], b.subdirs[k])

\* The files of a tree in the order of the walk.
RECURSIVE walk_files(_, _)
walk_files(root, w) ==
    IF w = <<>> THEN <<>>
    ELSE DirAt(root, Head(w).ref).files \o walk_files(root, Tail(w))

AllFiles(root) == walk_files(root, root_walk(root))

\* Every file of a that carries an id and a flag byte has them in b too.
KeepsIdsAndFlags(a, b) ==
    LET fa == AllFiles(a)
        fb == AllFiles(b)
    IN  /\ Len(fa) = Len(fb)
        /\ \A k \in 1..Len(fa) :
            fa[k].fileid # None =>
                fa[k].fileid = fb[k].fileid /\ fa[k].flags = fb[k].flags

\* the last call was write_arc without override table
PlainEncoded ==
    hist # <<>> /\ IsWrite(hist[Len(hist)]) /\ ~hist[Len(hist)].listed

\* the last two calls were write_arc without override table and from_file
\* on its bytes
PlainRoundTrip ==
    LET o == LastOps(2)
    IN  o # <<>> /\ IsWrite(o[1]) /\ ~o[1].listed /\ IsRead(o[2])

\* C1 as stated: for every tree T, encoding T without an override table
\* and decoding the bytes succeeds and gives the hierarchy, the names, the
\* contents, the ids and the flag bytes of T.
C1_RoundTripKeepsIdsAndFlags ==
    /\ PlainEncoded \/ PlainRoundTrip => err = NoErr
    /\ PlainRoundTrip => SameShape(src, tree) /\ KeepsIdsAndFlags(src, tree)

\* The tree T of the last call of write_arc is within the amended claims:
\* its names are unchanged by the Shift-JIS encoding, none is ".", ".." or
\* empty, and every directory name is non-blank, without separator and not
\* the name of a file beside it.
PlainNamed(o) == o.clean /\ o.named

\* C1 amended: for such a tree T, encoding T without an override table and
\* decoding the bytes succeeds and gives the hierarchy, the names and the
\* contents of T; the ids are the fallback ids 0, 1, 2, ... in the order of
\* the encoder and every flag byte is 0x11, whatever ids and flags the files
\* of T carry.
C1_RoundTripPlain ==
    /\ PlainEncoded /\ PlainNamed(hist[Len(hist)]) => err = NoErr
    /\ PlainRoundTrip /\ PlainNamed(LastOps(2)[1]) =>
        /\ err = NoErr
        /\ SameShape(src, tree)
        /\ \A k \in 1..Len(AllFiles(tree)) :
            /\ AllFiles(tree)[k].fileid = k - 1
            /\ AllFiles(tree)[k].flags = 17

\* a tree whose files carry listed ids and flags went through the round trip
C1_Witness ==
    /\ PlainRoundTrip /\ PlainNamed(LastOps(2)[1]) /\ err = NoErr
    /\ Len(src.subdirs) > 0
    /\ \E k \in 1..Len(AllFiles(src)) :
        AllFiles(src)[k].fileid = 3 /\ AllFiles(src)[k].flags = 149

\* the last three calls were write_arc with an override table that has
\* every file path of the tree, from_file on its bytes, and write_arc on the
\* decoded tree with the same table
ReEncoded ==
    LET o == LastOps(3)
    IN  /\ o # <<>>
        /\ IsWrite(o[1]) /\ o[1].listed /\ o[1].mapped
        /\ IsRead(o[2])
        /\ IsWrite(o[3]) /\ o[3].listed

\* C2 as stated: for every tree T, override table with every file path of
\* T and settings, encoding T, decoding, and encoding the decoded tree again
\* gives the bytes of the first encoding.
C2_ReEncodeSameBytes == ReEncoded => err = NoErr /\ out = prev

\* C2 amended: the same, for a tree T whose names are unchanged by the
\* Shift-JIS encoding, none ".", ".." or empty, every directory name
\* non-blank, without separator and not the name of a file beside it, and for
\* settings that do not run the external compressor on the stored file
\* contents.
C2_ReEncodeClean ==
    ReEncoded /\ PlainNamed(LastOps(3)[1]) /\ ~session.settings.wszst =>
        err = NoErr /\ out = prev

\* a tree with two listed files in one directory was encoded, decoded and
\* encoded again
C2_Witness ==
    /\ ReEncoded /\ PlainNamed(LastOps(3)[1]) /\ ~session.settings.wszst
    /\ LastOps(3)[1].full
    /\ Len(tree.files) = 2
    /\ out = prev /\ out # <<>>

\* two calls of write_arc in a row with the same arguments, both returned
WroteTwice ==
    LET o == LastOps(2)
    IN  /\ o # <<>>
        /\ IsWrite(o[1]) /\ IsWrite(o[2]) /\ o[1].listed = o[2].listed
        /\ err = NoErr

\* C3: a second call of write_arc on the tree the first call encoded, with
\* the same override table, seed and settings, writes the same bytes.
C3_Deterministic == WroteTwice => out = prev

\* the second call found node indices that the first call assigned
C3_Witness ==
    /\ WroteTwice
    /\ src.nodeindex = 0
    /\ Len(src.subdirs) = 2 /\ src.subdirs[2].nodeindex = 2
    /\ out = prev /\ out # <<>>

\* ---------------------------------------------------------------- decoder, step by step

\* The cap of the counter stringlen of stringtable_get_name once f is at its
\* end (the counter is unbounded there).
MaxStringLen == 12

\* The trees whose encodings the decoder is given have at most this many
\* directories and files.
MaxDecodeEntries == 3

\* The node record of the top frame, and the node indices below it, nearest
\* first: the argument parents of the call of from_node in progress.
Top == dec.stack[Len(dec.stack)]

TopNode == dec.nodes[Top.index + 1]

Parents == [k \in 1..(Len(dec.stack) - 1) |-> dec.stack[Len(dec.stack) - k].index]

\* The frame of a call of from_node: the Directory it builds and its loop
\* counter.
NewFrame(index, name) ==
    LET node == dec.nodes[index + 1]
    IN  [index |-> index, i |-> 0,
         dir |-> [name |-> IF node.has_name THEN node.name ELSE name,
                  nodeindex |-> index, files |-> <<>>, subdirs |-> <<>>]]

Raise(e) == [dec EXCEPT !.pc = "done", !.err = e]

NextEntry(d) == [d EXCEPT !.pc = "entries", !.stack[Len(dec.stack)].i = @ + 1]

StartScan(d, offset) ==
    [d EXCEPT !.pc = "scan", !.start = dec.hdr.stringtable_offset + offset,
              !.pos = dec.hdr.stringtable_offset + offset, !.stringlen = 0]

\* One step of the call: the decoder's new state, the exception and the
\* Archive the call ends with.
DecStep(d) ==
    /\ dec' = d
    /\ err' = d.err
    /\ tree' = IF d.pc = "done" /\ d.err = NoErr THEN d.root ELSE tree
    /\ UNCHANGED <<filelisting, session, out, src, prev, hist, tmpfiles, parsed>>

\* from_file up to the loop over the node records.
DecOpen ==
    /\ dec.pc = "open"
    /\ LET o == open_file(out)
           h == read_header(o.f)
       IN  DecStep(IF o.err # NoErr THEN Raise(o.err)
                   ELSE IF h.err # NoErr THEN Raise(h.err)
                   ELSE [dec EXCEPT !.pc = "nodes", !.f = o.f, !.hdr = h, !.i = 0])

\* One iteration of the loop over the node records; the first one calls
\* stringtable_get_name.
DecReadNode ==
    /\ dec.pc = "nodes"
    /\ dec.i < dec.hdr.node_count
    /\ LET nodedata == read_nodedata(dec.f, dec.i)
           node == unpack_node(nodedata)
       IN  DecStep(IF Len(nodedata) < 12 THEN Raise("struct.error")
                   ELSE IF dec.i = 0 THEN StartScan(dec, node.nameoffset)
                   ELSE [dec EXCEPT !.i = @ + 1,
                            !.nodes = Append(@,
                                [has_name |-> FALSE, name |-> <<>>,
                                 entrycount |-> node.entrycount,
                                 entryoffset |-> node.entryoffset])])

\* One iteration of "while f.read(1) != b'\x00'": at the end of f the read
\* returns b"" and leaves the position where it is.
DecScanByte ==
    /\ dec.pc = "scan"
    /\ LET byte == ReadAt(dec.f, dec.pos, 1)
       IN  /\ byte # <<0>>
           /\ DecStep([dec EXCEPT
                    !.pos = @ + Len(byte),
                    !.stringlen = IF byte = <<>> /\ @ >= MaxStringLen THEN @ ELSE @ + 1])

\* The read of the zero byte ends the loop; the name is decoded and
\* returned to the caller, the node loop or the entry loop.
DecScanEnd ==
    /\ dec.pc = "scan"
    /\ ReadAt(dec.f, dec.pos, 1) = <<0>>
    /\ LET d == sjis_decode(ReadAt(dec.f, dec.start, dec.stringlen))
           node == unpack_node(read_nodedata(dec.f, 0))
       IN  DecStep(IF d.err # NoErr THEN Raise(d.err)
                   ELSE IF dec.stack = <<>> THEN
                        [dec EXCEPT !.pc = "nodes", !.i = 1,
                            !.nodes = <<[has_name |-> TRUE, name |-> d.str,
                                         entrycount |-> node.entrycount,
                                         entryoffset |-> node.entryoffset]>>]
                   ELSE [dec EXCEPT !.pc = "named", !.name = d.str])

\* nodes[0][0] and the call of from_node for node 0.
DecRoot ==
    /\ dec.pc = "nodes"
    /\ dec.i >= dec.hdr.node_count
    /\ DecStep(IF dec.nodes = <<>> THEN Raise("IndexError")
               ELSE [dec EXCEPT !.pc = "entries",
                        !.stack = <<NewFrame(0, dec.nodes[1].name)>>])

\* The head of one iteration of the entry loop: the 20 bytes of the entry and
\* the call of stringtable_get_name.
DecEntry ==
    /\ dec.pc = "entries"
    /\ Top.i < TopNode.entrycount
    /\ LET offset == dec.hdr.file_entry_offset + (TopNode.entryoffset + Top.i) * 20
           e == ReadAt(dec.f, offset, 20)
       IN  DecStep(IF Len(e) < 20 THEN Raise("struct.error")
                   ELSE StartScan([dec EXCEPT !.entry = unpack_entry(e)],
                                  unpack_entry(e).nameoffset))

\* "if name == '.' or name == '..' or name == '': continue"
DecSkipSpecial ==
    /\ dec.pc = "named"
    /\ is_special(dec.name)
    /\ DecStep(NextEntry(dec))

\* "Detected recursive directory ... Skipping"
DecSkipRecursive ==
    /\ dec.pc = "named"
    /\ ~is_special(dec.name)
    /\ is_subdir(dec.entry.flags)
    /\ is_recursive(dec.entry.filedataoffset, Top.index, Parents)
    /\ DecStep(NextEntry([dec EXCEPT !.warnings = @ + 1]))

\* The recursive call of from_node for a sub directory.
DecEnterSubdir ==
    /\ dec.pc = "named"
    /\ ~is_special(dec.name)
    /\ is_subdir(dec.entry.flags)
    /\ ~is_recursive(dec.entry.filedataoffset, Top.index, Parents)
    /\ LET nodeindex == dec.entry.filedataoffset
       IN  DecStep(IF nodeindex >= Len(dec.nodes) THEN Raise("IndexError")
                   ELSE [dec EXCEPT !.pc = "entries",
                            !.stack = Append(@, NewFrame(nodeindex, dec.name))])

\* "entry is a file"
DecAddFile ==
    /\ dec.pc = "named"
    /\ ~is_special(dec.name)
    /\ ~is_subdir(dec.entry.flags)
    /\ LET e == dec.entry
           file == from_fileentry(dec.f, dec.hdr.stringtable_offset,
                        dec.hdr.data_offset, e.fileid, e.hashcode, e.flags,
                        e.nameoffset, e.filedataoffset, e.datasize)
       IN  DecStep(NextEntry([dec EXCEPT
                    !.stack[Len(dec.stack)].dir.files = DictSet(@, file)]))

\* "return newdir": to the caller's entry loop, or to from_file.
DecReturn ==
    /\ dec.pc = "entries"
    /\ Top.i >= TopNode.entrycount
    /\ LET n == Len(dec.stack)
       IN  DecStep(IF n = 1
                   THEN [dec EXCEPT !.pc = "done", !.stack = <<>>, !.root = Top.dir]
                   ELSE [dec EXCEPT
                            !.stack = [SubSeq(@, 1, n - 1) EXCEPT
                                ![n - 1].dir.subdirs = DictSet(@, Top.dir),
                                ![n - 1].i = @ + 1]])

NextDecode ==
    \/ DecOpen
    \/ DecReadNode
    \/ DecScanByte
    \/ DecScanEnd
    \/ DecRoot
    \/ DecEntry
    \/ DecSkipSpecial
    \/ DecSkipRecursive
    \/ DecEnterSubdir
    \/ DecAddFile
    \/ DecReturn

\* The buffers given to the decoder: encodings of trees, the same with one
\* byte of the header, of a node record, of an entry or of the string table
\* changed, the same cut short, and the same compressed.
PatchValues == {0, 1, 2, 128, 255}

\* The trees to encode: scanned trees with names that the text encoding
\* keeps.
DecodeTrees ==
    {t \in ScannedDirs({RootName}, MaxDecodeEntries) :
        \A n \in tree_names(t) : names_survive(n)}

Encoded(root) ==
    write_arc(root, CompressionSetting(FALSE, FALSE), NoListing, 0,
              [as_main |-> TRUE, run |-> GoodTool("same")]).bytes

Archives == {Encoded(t) : t \in DecodeTrees}

\* Offsets of the bytes to change: the magic, the low bytes of the header's
\* data offset, node count, entry offset and string table offset, the low
\* byte of the name offset of the root's node record, of the entry count and
\* of the entry offset of every node record, the flag byte and the low bytes
\* of the name offset and of the data offset (the child node index) of every
\* entry, and the bytes of the names with their terminators.
PatchPositions(buf) ==
    LET h == read_header(buf)
        entries == (h.stringtable_offset - h.file_entry_offset) \div 20
    IN  {0, 15, 35, 47, 55, 64 + 7}
        \cup {64 + 16 * i + k : i \in 0..(h.node_count - 1), k \in {11, 15}}
        \cup {h.file_entry_offset + 20 * j + k :
                j \in 0..(entries - 1), k \in {4, 7, 11}}
        \cup {p \in h.stringtable_offset..(h.data_offset - 1) :
                buf[p + 1] # 0 \/ buf[p] # 0}

\* Lengths to cut a buffer to: inside the magic, the header, the first node
\* record and the first entry, and after every byte of a name.
CutLengths(buf) ==
    LET h == read_header(buf)
    IN  {3, 55, 64 + 8} \cup {h.file_entry_offset + 10}
        \cup {p \in (h.stringtable_offset + 1)..(h.data_offset - 1) : buf[p] # 0}

Malformed(buf) ==
    {[buf EXCEPT ![p + 1] = v] : p \in PatchPositions(buf), v \in PatchValues}
    \cup {SubSeq(buf, 1, n) : n \in CutLengths(buf)}

DecoderInputs ==
    Archives
    \cup UNION {Malformed(b) : b \in Archives}
    \cup {compress_fast(b) : b \in Archives}
    \cup {compress_fast([b EXCEPT ![1] = 88]) : b \in Archives}

InitDecode ==
    /\ out \in DecoderInputs
    /\ dec = [DecIdle EXCEPT !.pc = "open"]
    /\ tree = NoTree
    /\ filelisting = NoListing
    /\ session \in Sessions(<<>>)
    /\ src = <<>>
    /\ prev = <<>>
    /\ err = NoErr
    /\ hist = <<>>
    /\ tmpfiles = {}
    /\ parsed = NotParsed

SpecDecode == InitDecode /\ [][NextDecode]_vars

\* The interpreter runs the call until it returns or raises.  The steps of
\* yaz0.decompress are not part of this model: the call starts from a
\* buffer that from_file does not hand to it.
InitDecodeFair == InitDecode /\ ReadAt(out, 0, 4) # Yaz0Magic

SpecDecodeFair == InitDecodeFair /\ [][NextDecode]_vars /\ WF_vars(NextDecode)

\* The step-by-step decoder ends as from_file says, and does not end when
\* from_file says the call never returns.
DecoderAgrees ==
    LET r == from_file(out)
    IN  /\ dec.pc = "done" => r.err = dec.err /\ r.root = dec.root
        /\ r.err = Hang => dec.pc # "done"
        /\ dec.pc = "scan" /\ dec.pos < Len(dec.f) => dec.stringlen = dec.pos - dec.start

\* ---------------------------------------------------------------- decoder claims

Returned == dec.pc = "done" /\ dec.err = NoErr

\* C4 as stated: on every input buffer the call of from_file ends, by
\* returning an Archive or by raising.
C4_DecoderTerminates == <>(dec.pc = "done")

\* The node indices of the call path of from_node are pairwise distinct, and
\* no Directory built so far has the node index of one of its ancestors.
RECURSIVE NoRepeatBelow(_, _)
NoRepeatBelow(dir, ancestors) ==
    /\ dir.nodeindex \notin ancestors
    /\ \A k \in 1..Len(dir.subdirs) :
        NoRepeatBelow(dir.subdirs[k], ancestors \cup {dir.nodeindex})

NoAncestorRepeat ==
    /\ \A k \in 1..Len(dec.stack) :
        NoRepeatBelow(dec.stack[k].dir, {dec.stack[j].index : j \in 1..(k - 1)})
    /\ Returned => NoRepeatBelow(dec.root, {})

\* the entry at hand names a sub directory whose node is on the call path
OnPath ==
    /\ dec.pc = "named"
    /\ ~is_special(dec.name)
    /\ is_subdir(dec.entry.flags)
    /\ \E k \in 1..Len(dec.stack) : dec.stack[k].index = dec.entry.filedataoffset

\* C5: an entry whose child node is the node being expanded or one of its
\* ancestors on the call path is not recursed into, the loop goes on with the
\* next entry of the same node, and no directory of the tree being built
\* has the node index of one of its ancestors.
C5_CycleGuard ==
    [][/\ OnPath =>
            /\ dec'.pc = "entries"
            /\ dec'.stack = [dec.stack EXCEPT ![Len(dec.stack)].i = @ + 1]
       /\ NoAncestorRepeat']_vars

\* the first sub directory entry of the root pointed back at the root and was
\* skipped; the second one was decoded
C5_Witness ==
    /\ Returned
    /\ dec.warnings = 1
    /\ Len(tree.subdirs) = 1
    /\ tree.subdirs[1].nodeindex = 2

\* C6: from_file raises and returns no Archive when the buffer, decompressed
\* first if it starts with "Yaz0", does not start with "RARC"; a buffer that
\* starts with "Yaz0" is decompressed and everything after that, the check
\* of the magic included, reads the decompressed buffer.
C6_MagicCheck ==
    dec.pc = "done" =>
        LET yaz0 == ReadAt(out, 0, 4) = Yaz0Magic
            d == decompress(out)
            buf == IF yaz0 THEN d.data ELSE out
        IN  /\ (yaz0 => d.err = NoErr) /\ ReadAt(buf, 0, 4) # RarcMagic =>
                dec.err = "RuntimeError" /\ tree = NoTree
            /\ yaz0 /\ d.err = NoErr /\ ReadAt(buf, 0, 4) = RarcMagic =>
                /\ dec.f = buf
                /\ dec.err = from_rarc(buf).err
                /\ dec.root = from_rarc(buf).root

\* a compressed archive with a file in a sub directory was decoded
C6_Witness ==
    /\ Returned
    /\ ReadAt(out, 0, 4) = Yaz0Magic
    /\ Len(tree.subdirs) = 1
    /\ Len(tree.subdirs[1].files) = 1
    /\ tree.subdirs[1].files[1].data = <<1, 2>>

\* C7 as stated: a buffer that starts with "RARC" and whose names decode is
\* decoded to an Archive without an exception, whatever its node count,
\* entry counts, offsets and child node indices.  Stated for the buffers
\* that have the length their header gives.
C7_OnlyMagicAndNamesFatal ==
    /\ dec.pc = "done"
    /\ ReadAt(out, 0, 4) = RarcMagic
    /\ Len(out) = read_uint32(ReadAt(out, 4, 4))
    /\ dec.err # "UnicodeDecodeError"
    => dec.err = NoErr

\* Some directory of the tree under dir holds one name as a file and as a
\* subdirectory.
RECURSIVE NameClash(_)
NameClash(dir) ==
    \/ \E k \in 1..Len(dir.files) : HasName(dir.subdirs, dir.files[k].name)
    \/ \E k \in 1..Len(dir.subdirs) : NameClash(dir.subdirs[k])

\* C11 as stated: in a tree that from_file has decoded from a buffer, no
\* directory holds one name both as a key of files and as a key of subdirs.
C11_NamesUnique ==
    dec.pc = "done" /\ dec.err = NoErr => ~NameClash(dec.root)

\* ---------------------------------------------------------------- compression on save

MaxCompressEntries == 2

CompressTrees == ScannedDirs({RootName}, MaxCompressEntries)

\* What can happen to one run of the external tool; a tool that is missing
\* creates no output file.
ToolRuns ==
    {t \in {ToolRun(w, s, o, k, r) :
                w \in BOOLEAN, s \in {"ok", "nonzero", "missing"}, o \in BOOLEAN,
                k \in {"shorter", "same", "longer"}, r \in BOOLEAN} :
        t.status = "missing" => ~t.wrote_out}

\* Every CompressionSetting, from __main__ or from an importing module.
CompressSessions(lines) ==
    {[settings |-> CompressionSetting(y, w), as_main |-> m, run |-> t,
      lines |-> lines] :
        y \in BOOLEAN, w \in BOOLEAN, m \in BOOLEAN, t \in ToolRuns}

\* The buffers run_wszst is called on directly.
WszstInputs == {FileData(f) : f \in FileNames}

InitCompress ==
    /\ tree \in CompressTrees
    /\ session \in UNION {CompressSessions(lines) : lines \in ListingFiles(tree)}
    /\ filelisting = main_filelisting(session.lines)
    /\ out = <<>>
    /\ src = <<>>
    /\ prev = <<>>
    /\ err = NoErr
    /\ hist = <<>>
    /\ dec = DecIdle
    /\ tmpfiles = {}
    /\ parsed = NotParsed

RunOp == [op |-> "run_wszst", listed |-> FALSE, full |-> FALSE, clean |-> FALSE]

\* archive.write_arc_compressed(f, compression_setting, filelisting, maxindex)
WriteArcCompressed ==
    /\ hist = <<>>
    /\ LET r == write_arc_compressed(tree, session.settings, filelisting,
                    main_maxindex(session.lines),
                    [as_main |-> session.as_main, run |-> session.run])
       IN  /\ tree' = r.root
           /\ out' = r.bytes
           /\ err' = r.err
           /\ tmpfiles' = tmpfiles \cup r.left
           /\ hist' = Append(hist, [WriteOp(filelisting # NoListing, filelisting,
                                            tree, r.looked)
                                        EXCEPT !.op = "write_arc_compressed"])
    /\ src' = tree
    /\ prev' = out
    /\ UNCHANGED <<filelisting, session, dec, parsed>>

\* archive.write_arc_uncompressed(f, filelisting, maxindex)
WriteArcUncompressed ==
    /\ hist = <<>>
    /\ LET r == write_arc_uncompressed(tree, filelisting, main_maxindex(session.lines),
                    [as_main |-> session.as_main, run |-> session.run])
       IN  /\ tree' = r.root
           /\ out' = r.bytes
           /\ err' = r.err
           /\ tmpfiles' = tmpfiles \cup r.left
           /\ hist' = Append(hist, [WriteOp(filelisting # NoListing, filelisting,
                                            tree, r.looked)
                                        EXCEPT !.op = "write_arc_uncompressed"])
    /\ src' = tree
    /\ prev' = out
    /\ UNCHANGED <<filelisting, session, dec, parsed>>

\* compression_setting.run_wszst(file)
RunWszst(file) ==
    /\ hist = <<>>
    /\ LET r == run_wszst(session.settings, file, session.run)
       IN  /\ out' = r.data
           /\ err' = r.err
           /\ tmpfiles' = tmpfiles \cup r.left
    /\ hist' = Append(hist, RunOp)
    /\ prev' = file
    /\ UNCHANGED <<tree, filelisting, session, src, dec, parsed>>

NextCompress ==
    \/ WriteArcCompressed
    \/ WriteArcUncompressed
    \/ \E file \in WszstInputs : RunWszst(file)

SpecCompress == InitCompress /\ [][NextCompress]_vars

\* C8 as stated: when write_arc_compressed returns under a setting that
\* compresses, what it wrote is the uncompressed encoding of the archive or
\* is strictly shorter than it; so it is never longer.
C8_NeverLongerThanPlain ==
    /\ hist # <<>>
    /\ hist[1].op = "write_arc_compressed"
    /\ err = NoErr
    /\ session.settings.yaz0_fast \/ session.settings.wszst
    => LET plain == write_arc(src, CompressionSetting(FALSE, FALSE), filelisting,
                        main_maxindex(session.lines),
                        [as_main |-> session.as_main, run |-> session.run]).bytes
       IN  /\ Len(out) <= Len(plain)
           /\ out # plain => Len(out) < Len(plain)

\* C9 as stated: when run_wszst has finished, by returning or by raising,
\* none of its temporary files exists.
C9_TempFilesRemoved ==
    hist # <<>> /\ hist[1].op = "run_wszst" => tmpfiles = {}

\* ---------------------------------------------------------------- flag strings

MaxTokens == 3

\* The settings a flag string is joined from: the two tokens, the empty
\* setting, and two that from_string does not know.
Tokens == {TokYaz0Compressed, TokRel, <<>>, <<120>>, <<82, 69, 76>>}

\* "|".join of 1 to n settings.
RECURSIVE FlagStrings(_)
FlagStrings(n) ==
    IF n <= 1 THEN Tokens
    ELSE FlagStrings(n - 1)
         \cup {s \o <<Pipe>> \o t : s \in FlagStrings(n - 1), t \in Tokens}

EmptyRoot == [name |-> RootName, nodeindex |-> None, files |-> <<>>, subdirs |-> <<>>]

InitFlags ==
    /\ tree = EmptyRoot
    /\ filelisting = NoListing
    /\ session = [settings |-> CompressionSetting(FALSE, FALSE), as_main |-> TRUE,
                  run |-> GoodTool("same"), lines |-> <<>>]
    /\ out = <<>>
    /\ src = <<>>
    /\ prev = <<>>
    /\ err = NoErr
    /\ hist = <<>>
    /\ dec = DecIdle
    /\ tmpfiles = {}
    /\ parsed \in {[NotParsed EXCEPT !.string = s] : s \in FlagStrings(MaxTokens)}

\* FileListing.from_string(metadata)
FromString ==
    /\ parsed.pc = "idle"
    /\ LET r == from_string(parsed.string)
       IN  /\ parsed' = [pc |-> "done", string |-> parsed.string, err |-> r.err,
                         meta |-> r.meta]
           /\ err' = r.err
    /\ UNCHANGED <<tree, filelisting, session, out, src, prev, hist, dec, tmpfiles>>

NextFlags == FromString

SpecFlags == InitFlags /\ [][NextFlags]_vars

\* A non-empty setting of the string that is neither of the two tokens.
HasUnknownToken(string) ==
    LET result == split(string, Pipe)
    IN  \E k \in 1..Len(result) :
            result[k] \notin {<<>>, TokYaz0Compressed, TokRel}

\* C10 as stated: from_string fails for every flag string with a non-empty
\* setting other than yaz0_compressed and rel.
C10_UnknownTokenRejected ==
    parsed.pc = "done" /\ HasUnknownToken(parsed.string) => parsed.err # NoErr

\* ---------------------------------------------------------------- paths into a tree

MaxPathLen == 3

\* The names of the paths: the root's name, names of the trees, and a name
\* no tree has.
PathSegs == {RootName, <<97>>, <<100>>, <<120>>}

\* "/".join of 1 to n names.
RECURSIVE Joined(_)
Joined(n) ==
    IF n <= 1 THEN PathSegs
    ELSE Joined(n - 1)
         \cup {p \o <<Slash>> \o s : p \in Joined(n - 1), s \in PathSegs}

\* The paths given to the lookups and insertions; some end with a
\* separator, or with a separator and a blank.
TreePaths ==
    Joined(MaxPathLen)
    \cup {p \o <<Slash>> \o t : p \in Joined(MaxPathLen - 1), t \in {<<>>, <<32>>}}

\* The values inserted: a File and a Directory, both new.
Entries ==
    {[type |-> "File", value |-> file_from_file(<<120>>, <<>>)],
     [type |-> "Directory", value |-> [EmptyRoot EXCEPT !.name = <<120>>]]}

NoEntry == [type |-> "", value |-> <<>>]

NotFound == [err |-> NoErr, kind |-> "", ref |-> <<>>, index |-> 0]

InitTree ==
    /\ tree \in ScannedTrees
    /\ filelisting = NoListing
    /\ session = [settings |-> CompressionSetting(FALSE, FALSE), as_main |-> TRUE,
                  run |-> GoodTool("same"), lines |-> <<>>]
    /\ out = <<>>
    /\ src = <<>>
    /\ prev = <<>>
    /\ err = NoErr
    /\ hist = <<>>
    /\ dec = DecIdle
    /\ tmpfiles = {}
    /\ parsed = NotParsed

\* What hist keeps of the call made on the tree: the tree before it, the
\* path, the entry given, the exception and the object found.
TreeOp(op, path, entry, e, found) ==
    [op |-> op, before |-> tree, path |-> path, entry |-> entry, err |-> e,
     found |-> found]

\* archive[path] = entry
ArchiveSetItem(path, entry) ==
    /\ hist = <<>>
    /\ LET r == archive_setitem(tree, path, entry)
       IN  /\ tree' = r.root
           /\ err' = r.err
           /\ hist' = <<TreeOp("Archive.__setitem__", path, entry, r.err, NotFound)>>
    /\ UNCHANGED <<filelisting, session, out, src, prev, dec, tmpfiles, parsed>>

\* archive.root[path] = entry
DirectorySetItem(path, entry) ==
    /\ hist = <<>>
    /\ LET r == dir_setitem(tree, <<>>, path, entry)
       IN  /\ tree' = r.root
           /\ err' = r.err
           /\ hist' = <<TreeOp("Directory.__setitem__", path, entry, r.err, NotFound)>>
    /\ UNCHANGED <<filelisting, session, out, src, prev, dec, tmpfiles, parsed>>

\* archive[path]
ArchiveGetItem(path) ==
    /\ hist = <<>>
    /\ LET r == archive_getitem(tree, path)
       IN  /\ err' = r.err
           /\ hist' = <<TreeOp("Archive.__getitem__", path, NoEntry, r.err, r)>>
    /\ UNCHANGED <<tree, filelisting, session, out, src, prev, dec, tmpfiles, parsed>>

\* archive.root[path]
DirectoryGetItem(path) ==
    /\ hist = <<>>
    /\ LET r == dir_getitem(tree, <<>>, path)
       IN  /\ err' = r.err
           /\ hist' = <<TreeOp("Directory.__getitem__", path, NoEntry, r.err, r)>>
    /\ UNCHANGED <<tree, filelisting, session, out, src, prev, dec, tmpfiles, parsed>>

\* archive[path] or archive.root[path] after the insertion at the same
\* path, whatever the insertion did.
LookupInserted ==
    /\ Len(hist) = 1
    /\ hist[1].op \in {"Archive.__setitem__", "Directory.__setitem__"}
    /\ LET r == IF hist[1].op = "Archive.__setitem__"
                THEN archive_getitem(tree, hist[1].path)
                ELSE dir_getitem(tree, <<>>, hist[1].path)
       IN  /\ err' = r.err
           /\ hist' = Append(hist, TreeOp("lookup", hist[1].path, NoEntry, r.err, r))
    /\ UNCHANGED <<tree, filelisting, session, out, src, prev, dec, tmpfiles, parsed>>

NextTree ==
    \/ \E path \in TreePaths, entry \in Entries : ArchiveSetItem(path, entry)
    \/ \E path \in TreePaths, entry \in Entries : DirectorySetItem(path, entry)
    \/ \E path \in TreePaths : ArchiveGetItem(path)
    \/ \E path \in TreePaths : DirectoryGetItem(path)
    \/ LookupInserted

SpecTree == InitTree /\ [][NextTree]_vars

\* The path of an insertion into the Directory root names, by its last
\* name, a subdirectory where a File is inserted, or a file where a
\* Directory is inserted.
ConflictIn(root, path, entry) ==
    LET r == dir_getitem(root, <<>>, path)
    IN  /\ r.err = NoErr
        /\ \/ entry.type = "File" /\ r.kind = "dir"
           \/ entry.type = "Directory" /\ r.kind = "file"

Conflict(h) ==
    \/ /\ h.op = "Directory.__setitem__"
       /\ ConflictIn(h.before, h.path, h.entry)
    \/ /\ h.op = "Archive.__setitem__"
       /\ LET sp == split_path(h.path)
          IN  /\ sp.has_rest /\ ~IsBlank(sp.rest)
              /\ sp.name = h.before.name
              /\ ConflictIn(h.before, sp.rest, h.entry)

\* C12 as stated: an insertion of a File where the name is a subdirectory,
\* or of a Directory where the name is a file, fails with FileExistsError
\* and leaves the tree as it was.
C12_PathConflict ==
    hist # <<>> /\ Conflict(hist[1])
    => hist[1].err = "FileExistsError" /\ tree = hist[1].before

\* The names of a path; a separator at the end of the path, or a separator
\* and blanks, add no name.
PathNames(path) ==
    LET result == split(path, Slash)
    IN  IF Len(result) > 1 /\ IsBlank(result[Len(result)])
        THEN SubSeq(result, 1, Len(result) - 1)
        ELSE result

\* The names lead from dir through subdirectories to a subdirectory or a
\* file.
RECURSIVE Descends(_, _)
Descends(dir, path_names) ==
    IF path_names = <<>> THEN TRUE
    ELSE IF Len(path_names) = 1 THEN
        HasName(dir.subdirs, path_names[1]) \/ HasName(dir.files, path_names[1])
    ELSE /\ HasName(dir.subdirs, path_names[1])
         /\ Descends(dir.subdirs[IndexOf(dir.subdirs, path_names[1])], Tail(path_names))

\* The path of the lookup h names a directory or a file of the tree.
NamesEntry(h) ==
    LET path_names == PathNames(h.path)
    IN  IF h.op = "Archive.__getitem__"
        THEN path_names[1] = h.before.name /\ Descends(h.before, Tail(path_names))
        ELSE Descends(h.before, path_names)

IsLookup(h) == h.op \in {"Archive.__getitem__", "Directory.__getitem__"}

\* C13 as stated: a lookup of a path that names no directory and no file
\* of the tree raises an error; a path given to Archive.__getitem__ names
\* an entry only if its first name is the root's.
C13_MissingLookupFails ==
    hist # <<>> /\ IsLookup(hist[1]) /\ ~NamesEntry(hist[1])
    => hist[1].err # NoErr

\* ---------------------------------------------------------------- extraction

MaxExtractEntries == 3

\* decompress(f, out, suppress_error=True): a Yaz0 stream is written
\* decompressed; for any other buffer the call writes the buffer as it is
\* or writes nothing, as quiet says.  [written]
decompress_quiet(buf, quiet) ==
    IF decompress(buf).err = NoErr THEN decompress(buf).data
    ELSE IF quiet = "copies" THEN buf
    ELSE <<>>

\* The truth value of "self.is_yaz0_compressed" in File.dump: the method
\* is not called, and a bound method is true.
method_is_true(file) == TRUE

\* File.dump: [written, decompressor]; decompressor says whether
\* decompress was called.
dump(file, quiet) ==
    IF method_is_true(file)
    THEN [written |-> decompress_quiet(file.data, quiet), decompressor |-> TRUE]
    ELSE [written |-> file.data, decompressor |-> FALSE]

\* os.path.join of two paths (posixpath): a second path that starts with
\* the separator replaces the first, and no separator is added after an
\* empty first path or one that ends with the separator.
os_path_join(a, b) ==
    IF b # <<>> /\ b[1] = Slash THEN b
    ELSE IF a = <<>> \/ a[Len(a)] = Slash THEN a \o b
    ELSE a \o <<Slash>> \o b

\* The file system: the directories and the files that exist, each as the
\* sequence of names from "/".  Cwd is the working directory.
Cwd == <<<<119>>>>

EmptyDisk == [dirs |-> {<<>>, Cwd}, files |-> {}]

\* The output directory's name is taken by a file.
FileAtOutput == [dirs |-> {<<>>, Cwd}, files |-> {Append(Cwd, <<111>>)}]

Parent(cur) == IF cur = <<>> THEN cur ELSE SubSeq(cur, 1, Len(cur) - 1)

StartDir(path) == IF path[1] = Slash THEN <<>> ELSE Cwd

\* Nothing but separators is left of a path.
Trailing(parts) == \A i \in 1..Len(parts) : parts[i] = <<>>

HasNul(path) == \E i \in 1..Len(path) : path[i] = 0

\* What the names of a path lead to from the directory cur: [kind, at, rest].
\* kind is "dir" for a directory, "file" for a file and "none" for a name
\* that a directory does not hold; rest are the names after that file or
\* missing name.
RECURSIVE path_entry(_, _, _)
path_entry(fs, cur, parts) ==
    IF parts = <<>> THEN [kind |-> "dir", at |-> cur, rest |-> <<>>]
    ELSE IF Head(parts) = <<>> \/ Head(parts) = Dot
    THEN path_entry(fs, cur, Tail(parts))
    ELSE IF Head(parts) = DotDot THEN path_entry(fs, Parent(cur), Tail(parts))
    ELSE IF Append(cur, Head(parts)) \in fs.dirs
    THEN path_entry(fs, Append(cur, Head(parts)), Tail(parts))
    ELSE [kind |-> IF Append(cur, Head(parts)) \in fs.files THEN "file" ELSE "none",
          at |-> Append(cur, Head(parts)), rest |-> Tail(parts)]

\* The entry of a path that is not empty and holds no null character.
Resolve(fs, path) == path_entry(fs, StartDir(path), split(path, Slash))

\* os.path.exists and os.path.isdir: false for a path that cannot be
\* followed, for the empty path and for one with a null character.
os_path_exists(fs, path) ==
    /\ path # <<>>
    /\ ~HasNul(path)
    /\ \/ Resolve(fs, path).kind = "dir"
       \/ Resolve(fs, path).kind = "file" /\ Resolve(fs, path).rest = <<>>

os_path_isdir(fs, path) ==
    path # <<>> /\ ~HasNul(path) /\ Resolve(fs, path).kind = "dir"

\* os.mkdir: [err, fs]
mkdir(fs, path) ==
    IF HasNul(path) THEN [err |-> "ValueError", fs |-> fs]
    ELSE IF path = <<>> THEN [err |-> "FileNotFoundError", fs |-> fs]
    ELSE IF Resolve(fs, path).kind = "dir" THEN [err |-> "FileExistsError", fs |-> fs]
    ELSE IF Resolve(fs, path).kind = "file"
    THEN [err |-> IF Trailing(Resolve(fs, path).rest) THEN "FileExistsError"
                  ELSE "NotADirectoryError",
          fs |-> fs]
    ELSE IF Trailing(Resolve(fs, path).rest)
    THEN [err |-> NoErr, fs |-> [fs EXCEPT !.dirs = @ \cup {Resolve(fs, path).at}]]
    ELSE [err |-> "FileNotFoundError", fs |-> fs]

\* The end of os.makedirs: mkdir, where an OSError is passed over when the
\* name is a directory.
mkdir_exist_ok(fs, name) ==
    IF mkdir(fs, name).err = NoErr THEN mkdir(fs, name)
    ELSE IF mkdir(fs, name).err # "ValueError" /\ os_path_isdir(fs, name)
    THEN [err |-> NoErr, fs |-> fs]
    ELSE mkdir(fs, name)

RECURSIVE rstrip(_)
rstrip(s) ==
    IF s # <<>> /\ s[Len(s)] = Slash THEN rstrip(SubSeq(s, 1, Len(s) - 1)) ELSE s

\* The part of a path up to its last separator.
UpToSlash(p) ==
    IF \A k \in 1..Len(p) : p[k] # Slash THEN <<>>
    ELSE SubSeq(p, 1, CHOOSE k \in 1..Len(p) :
                        p[k] = Slash /\ \A j \in (k + 1)..Len(p) : p[j] # Slash)

\* os.path.split (posixpath): [head, tail]
os_path_split(p) ==
    [head |-> IF \E k \in 1..Len(UpToSlash(p)) : UpToSlash(p)[k] # Slash
              THEN rstrip(UpToSlash(p)) ELSE UpToSlash(p),
     tail |-> SubSeq(p, Len(UpToSlash(p)) + 1, Len(p))]

\* head and tail as os.makedirs takes them: of the head, when the name ends
\* with a separator.
makedirs_split(name) ==
    IF os_path_split(name).tail = <<>> THEN os_path_split(os_path_split(name).head)
    ELSE os_path_split(name)

\* os.makedirs(name, exist_ok=True): [err, fs].  The head is made first when
\* it does not exist; a FileExistsError from that is passed over.
RECURSIVE makedirs(_, _)
makedirs_made(name, tail, made) ==
    IF made.err # NoErr /\ made.err # "FileExistsError" THEN made
    ELSE IF tail = Dot THEN [err |-> NoErr, fs |-> made.fs]
    ELSE mkdir_exist_ok(made.fs, name)

makedirs_tail(fs, name, s) ==
    IF s.head # <<>> /\ s.tail # <<>> /\ ~os_path_exists(fs, s.head)
    THEN makedirs_made(name, s.tail, makedirs(fs, s.head))
    ELSE mkdir_exist_ok(fs, name)

makedirs(fs, name) == makedirs_tail(fs, name, makedirs_split(name))

\* open(filepath, "w+b"): [err, fs].  The file is made when its directory
\* exists.
open_wb(fs, filepath) ==
    IF HasNul(filepath) THEN [err |-> "ValueError", fs |-> fs]
    ELSE IF filepath = <<>> THEN [err |-> "FileNotFoundError", fs |-> fs]
    ELSE IF Resolve(fs, filepath).kind = "dir"
    THEN [err |-> "IsADirectoryError", fs |-> fs]
    ELSE IF Resolve(fs, filepath).rest = <<>>
    THEN [err |-> NoErr,
          fs |-> [fs EXCEPT !.files = @ \cup {Resolve(fs, filepath).at}]]
    ELSE IF Trailing(Resolve(fs, filepath).rest)
    THEN [err |-> "IsADirectoryError", fs |-> fs]
    ELSE IF Resolve(fs, filepath).kind = "file"
    THEN [err |-> "NotADirectoryError", fs |-> fs]
    ELSE [err |-> "FileNotFoundError", fs |-> fs]

\* Nothing extracted yet, on the file system fs.
Extraction(fs) == [err |-> NoErr, files |-> <<>>, fs |-> fs]

\* Directory.extract_to: [err, files, fs]; files are the files opened for
\* writing, in order, each with its path, the File it was written from and
\* what dump wrote; fs is the file system the call leaves.  acc is the
\* result so far.
RECURSIVE extract_to(_, _, _, _)
RECURSIVE extract_files(_, _, _, _, _)
RECURSIVE extract_subdirs(_, _, _, _, _)
extract_made(dir, current_dirpath, quiet, acc, made) ==
    IF made.err # NoErr THEN [acc EXCEPT !.err = made.err, !.fs = made.fs]
    ELSE extract_subdirs(dir, current_dirpath, quiet, 1,
            extract_files(dir, current_dirpath, quiet, 1, [acc EXCEPT !.fs = made.fs]))

extract_to(dir, path, quiet, acc) ==
    extract_made(dir, os_path_join(path, dir.name), quiet, acc,
                 makedirs(acc.fs, os_path_join(path, dir.name)))

extract_files(dir, current_dirpath, quiet, k, acc) ==
    IF k > Len(dir.files) \/ acc.err # NoErr THEN acc
    ELSE IF open_wb(acc.fs, os_path_join(current_dirpath, dir.files[k].name)).err # NoErr
    THEN [acc EXCEPT !.err =
            open_wb(acc.fs, os_path_join(current_dirpath, dir.files[k].name)).err]
    ELSE extract_files(dir, current_dirpath, quiet, k + 1,
            [err |-> NoErr,
             fs |-> open_wb(acc.fs, os_path_join(current_dirpath, dir.files[k].name)).fs,
             files |-> Append(acc.files,
                [filepath |-> os_path_join(current_dirpath, dir.files[k].name),
                 file |-> dir.files[k],
                 written |-> dump(dir.files[k], quiet).written,
                 decompressor |-> dump(dir.files[k], quiet).decompressor])])

extract_subdirs(dir, current_dirpath, quiet, k, acc) ==
    IF k > Len(dir.subdirs) \/ acc.err # NoErr THEN acc
    ELSE extract_subdirs(dir, current_dirpath, quiet, k + 1,
            extract_to(dir.subdirs[k], current_dirpath, quiet, acc))

\* A directory on disk as from_dir reads it, where the files at the paths
\* in packed hold a Yaz0 stream.
RECURSIVE PackedDir(_, _, _)
PackedDir(dir, abspath, packed) ==
    [name |-> dir.name, nodeindex |-> dir.nodeindex,
     files |-> [k \in 1..Len(dir.files) |->
                    IF (abspath \o <<Slash>> \o dir.files[k].name) \in packed
                    THEN [dir.files[k] EXCEPT !.data = compress_fast(@)]
                    ELSE dir.files[k]],
     subdirs |-> [k \in 1..Len(dir.subdirs) |->
                    PackedDir(dir.subdirs[k],
                              abspath \o <<Slash>> \o dir.subdirs[k].name, packed)]]

FilePathSet(root) ==
    {walk_paths(root_walk(root))[k] :
        k \in 1..Len(walk_paths(root_walk(root)))}

\* The sidecars that list some files of the tree as yaz0_compressed.
ExtractListings(root) ==
    LET paths == walk_paths(root_walk(root))
    IN  {ListedLines(paths,
                     [k \in 1..Len(paths) |-> [fileid |-> 0, meta |-> yaz0_compressed]],
                     K, 1) :
            K \in SUBSET (1..Len(paths))}

\* The archive packed from a directory with a sidecar, then read.
Repacked(root, lines) ==
    from_file(write_arc(root, CompressionSetting(FALSE, FALSE),
                        main_filelisting(lines), main_maxindex(lines),
                        [as_main |-> TRUE, run |-> GoodTool("same")]).bytes).root

\* The trees extracted: decoded archives.
ExtractTrees ==
    UNION {{Repacked(PackedDir(t, t.name, packed), lines) :
                packed \in SUBSET FilePathSet(t), lines \in ExtractListings(t)} :
           t \in ScannedDirs({RootName}, MaxExtractEntries)}

InitExtract ==
    /\ tree \in ExtractTrees
    /\ filelisting = NoListing
    /\ session = [settings |-> CompressionSetting(FALSE, FALSE), as_main |-> TRUE,
                  run |-> GoodTool("same"), lines |-> <<>>]
    /\ out = <<>>
    /\ src = <<>>
    /\ prev = <<>>
    /\ err = NoErr
    /\ hist = <<>>
    /\ dec = DecIdle
    /\ tmpfiles = {}
    /\ parsed = NotParsed

\* archive.extract_to(path) on the file system disk; out is the list of the
\* files written.
ExtractTo(quiet, disk) ==
    /\ hist = <<>>
    /\ out' = extract_to(tree, <<111>>, quiet, Extraction(disk)).files
    /\ err' = extract_to(tree, <<111>>, quiet, Extraction(disk)).err
    /\ hist' = <<[op |-> "extract_to", quiet |-> quiet, disk |-> disk]>>
    /\ UNCHANGED <<tree, filelisting, session, src, prev, dec, tmpfiles, parsed>>

NextExtract ==
    \E quiet \in {"copies", "nothing"}, disk \in {EmptyDisk, FileAtOutput} :
        ExtractTo(quiet, disk)

SpecExtract == InitExtract /\ [][NextExtract]_vars

\* The flags mark the file as compressed with yaz0.
MarkedYaz0(flags) == HasBit(flags, COMPRESSED) /\ HasBit(flags, YAZ0)

\* C14 as stated: extraction writes a file whose flags mark it compressed
\* decompressed (stated for the files that hold a Yaz0 stream), and a file
\* whose flags do not mark it compressed as its stored bytes, without a
\* call of the decompressor.
C14_ExtractByFlag ==
    hist # <<>> /\ hist[1].op = "extract_to" =>
        \A k \in 1..Len(out) :
            IF MarkedYaz0(out[k].file.flags)
            THEN decompress(out[k].file.data).err = NoErr
                 => out[k].written = decompress(out[k].file.data).data
            ELSE out[k].written = out[k].file.data /\ ~out[k].decompressor

\* ---------------------------------------------------------------- name hash

MaxNameLen == 3

\* The code points of the names hashed: a letter, a kana, the largest of
\* the basic plane, and the largest code point.
Letters == {97, 12354, 65535, 1114111}

RECURSIVE HashedNames(_)
HashedNames(n) ==
    IF n = 0 THEN {<<>>}
    ELSE HashedNames(n - 1)
         \cup {Append(name, c) : name \in HashedNames(n - 1), c \in Letters}

InitHash ==
    /\ tree = EmptyRoot
    /\ filelisting = NoListing
    /\ session = [settings |-> CompressionSetting(FALSE, FALSE), as_main |-> TRUE,
                  run |-> GoodTool("same"), lines |-> <<>>]
    /\ out = <<>>
    /\ src = <<>>
    /\ prev = <<>>
    /\ err = NoErr
    /\ hist = <<>>
    /\ dec = DecIdle
    /\ tmpfiles = {}
    /\ parsed \in {[pc |-> "idle", name |-> name, hash |-> None] : name \in HashedNames(MaxNameLen)}

\* hash_name(name)
HashName ==
    /\ parsed.pc = "idle"
    /\ parsed' = [parsed EXCEPT !.pc = "done", !.hash = hash_name(parsed.name)]
    /\ UNCHANGED <<tree, filelisting, session, out, src, prev, err, hist, dec, tmpfiles>>

NextHash == HashName

SpecHash == InitHash /\ [][NextHash]_vars

\* The hash as the claim gives it: h after k characters.
ClaimedHash(name) ==
    LET m == IF Len(name) + 1 = 1 THEN 1 ELSE IF Len(name) + 1 = 2 THEN 2 ELSE 3
        h[k \in 0..Len(name)] ==
            IF k = 0 THEN 0
            ELSE (((h[k - 1] * m) % 65536) + name[k]) % 65536
    IN  h[Len(name)]

\* C15: hash_name(name) is the claimed value, lies in 0..65535, and is 0
\* for the empty name.
C15_NameHash ==
    parsed.pc = "done" =>
        /\ parsed.hash = ClaimedHash(parsed.name)
        /\ parsed.hash \in 0..65535
        /\ parsed.name = <<>> => parsed.hash = 0

\* A name of three characters has been hashed and the sum wrapped around.
C15_Witness ==
    /\ parsed.pc = "done"
    /\ parsed.name = <<65535, 97, 12354>>
    /\ parsed.hash = 12636

\* ---------------------------------------------------------------- interning

MaxWrites == 3

\* The strings interned: the empty one, ASCII names of which one ends
\* another, the backslash and the yen sign (one encoding), a double-byte
\* character, and a string that has no encoding.
Strings == {<<>>, <<97>>, <<98, 97>>, <<92>>, <<165>>, <<12354>>, <<97, 200>>}

InitStrings ==
    /\ tree = EmptyRoot
    /\ filelisting = NoListing
    /\ session = [settings |-> CompressionSetting(FALSE, FALSE), as_main |-> TRUE,
                  run |-> GoodTool("same"), lines |-> <<>>]
    /\ out = <<>>
    /\ src = <<>>
    /\ prev = <<>>
    /\ err = NoErr
    /\ hist = <<>>
    /\ dec = DecIdle
    /\ tmpfiles = {}
    /\ parsed = [st |-> StringTable]

\* stringtable.write_string(string); hist keeps the string, the size of
\* the table before the call, and the exception.  encode raises before
\* anything is written.
WriteString(string) ==
    /\ Len(hist) < MaxWrites
    /\ IF InTable(parsed.st, string) \/ sjis_encodable(string)
       THEN /\ parsed' = [st |-> write_string(parsed.st, string)]
            /\ err' = NoErr
       ELSE /\ parsed' = parsed
            /\ err' = "UnicodeEncodeError"
    /\ hist' = Append(hist, [string |-> string, size |-> stringtable_size(parsed.st),
                             err |-> err'])
    /\ UNCHANGED <<tree, filelisting, session, out, src, prev, dec, tmpfiles>>

NextStrings == \E string \in Strings : WriteString(string)

SpecStrings == InitStrings /\ [][NextStrings]_vars

\* The calls that interned a string for the first time.
FirstWrites ==
    {k \in 1..Len(hist) :
        hist[k].err = NoErr /\ \A j \in 1..(k - 1) : hist[j].string # hist[k].string}

\* The encodings, each with its zero byte, of the strings that the first k
\* calls interned, every string once.
RECURSIVE Interned(_)
Interned(k) ==
    IF k = 0 THEN <<>>
    ELSE Interned(k - 1)
         \o (IF k \in FirstWrites THEN sjis_encode(hist[k].string) \o <<0>> ELSE <<>>)

\* C16: the blob holds every interned string once, followed by a zero
\* byte; the offset of a string is the size of the table when the string
\* was first interned; the size is the sum of the encoded lengths plus one.
C16_InternOnce ==
    /\ parsed.st.strings = Interned(Len(hist))
    /\ \A k \in FirstWrites :
        get_string_offset(parsed.st, hist[k].string) = hist[k].size
    /\ stringtable_size(parsed.st) = Len(Interned(Len(hist)))

\* A string has been interned, then another, then the first again.
C16_Witness ==
    /\ Len(hist) = 3
    /\ hist[1].string = hist[3].string
    /\ hist[2].string # hist[1].string
    /\ hist[1].string # <<>>
    /\ \A k \in 1..3 : hist[k].err = NoErr
    /\ Len(parsed.st.stringmap) = 2

\* ---------------------------------------------------------------- flag bytes

InitFlagByte ==
    /\ tree = EmptyRoot
    /\ filelisting = NoListing
    /\ session = [settings |-> CompressionSetting(FALSE, FALSE), as_main |-> TRUE,
                  run |-> GoodTool("same"), lines |-> <<>>]
    /\ out = <<>>
    /\ src = <<>>
    /\ prev = <<>>
    /\ err = NoErr
    /\ hist = <<>>
    /\ dec = DecIdle
    /\ tmpfiles = {}
    /\ parsed \in {[pc |-> "idle", flags |-> b, meta |-> default, result |-> None] :
                    b \in 0..255}

\* FileListing.from_flags(flags).to_flags()
FromFlags ==
    /\ parsed.pc = "idle"
    /\ parsed' = [pc |-> "done", flags |-> parsed.flags,
                  meta |-> from_flags(parsed.flags),
                  result |-> to_flags(from_flags(parsed.flags))]
    /\ err' = NoErr
    /\ UNCHANGED <<tree, filelisting, session, out, src, prev, hist, dec, tmpfiles>>

NextFlagByte == FromFlags

SpecFlagByte == InitFlagByte /\ [][NextFlagByte]_vars

\* The byte b with the bits 0x08 and 0x40 cleared.
Cleared(b) == (b % 8) + ((b \div 16) % 4) * 16 + (b \div 128) * 128

\* C17: from_flags(b) raises nothing, and to_flags of the result is b with
\* the bits 0x08 and 0x40 cleared and the six other bits as they were.
C17_FlagByteRoundTrip ==
    parsed.pc = "done" =>
        /\ err = NoErr
        /\ parsed.result = Cleared(parsed.flags)
        /\ \A bit \in {1, 2, 4, 16, 32, 128} :
            ((parsed.result \div bit) % 2) = ((parsed.flags \div bit) % 2)
        /\ \A bit \in {8, 64} : (parsed.result \div bit) % 2 = 0

\* The byte with every bit set has been converted.
C17_Witness ==
    parsed.pc = "done" /\ parsed.flags = 255 /\ parsed.result = 183

\* ---------------------------------------------------------------- ids written

\* The ids of the file entries of every directory of a decoded archive, in
\* the order of the entries.
RECURSIVE EntryIds(_)
EntryIds(dir) ==
    <<[k \in 1..Len(dir.files) |-> dir.files[k].fileid]>>
    \o IF dir.subdirs = <<>> THEN <<>>
       ELSE LET sub[k \in 1..Len(dir.subdirs)] ==
                    IF k = 1 THEN EntryIds(dir.subdirs[1])
                    ELSE sub[k - 1] \o EntryIds(dir.subdirs[k])
            IN  sub[Len(dir.subdirs)]

Ascending(ids) == \A k \in 1..(Len(ids) - 1) : ids[k] <= ids[k + 1]

\* write_arc has just returned the bytes of out.
Written == hist # <<>> /\ IsWrite(hist[Len(hist)]) /\ err = NoErr

\* C18 as stated: in the bytes write_arc returns, the file entries of every
\* directory are in ascending order of their ids.
C18_FilesAscendingById ==
    Written =>
        LET ids == EntryIds(from_file(out).root)
        IN  \A d \in 1..Len(ids) : Ascending(ids[d])

\* The override table the last write_arc was given.
UsedListing == IF hist[Len(hist)].listed THEN filelisting ELSE NoListing

\* The ids the table assigns.
ListedIds(fl) ==
    IF fl = NoListing THEN {} ELSE {fl[p].fileid : p \in DOMAIN fl}

\* Where the claim starts the fallback counter: one past the largest id
\* of the table, zero without an id.
FallbackStart(fl) ==
    IF ListedIds(fl) = {} THEN 0
    ELSE (CHOOSE m \in ListedIds(fl) : \A i \in ListedIds(fl) : i <= m) + 1

\* C19 as stated: the files that the table does not list are written with
\* the ids FallbackStart, FallbackStart + 1, ..., one id each, and none of
\* these is an id of the table.
C19_FallbackIds ==
    Written =>
        LET paths == [k \in 1..Len(dirlist_files(src, root_walk(src))) |->
                        dirlist_files(src, root_walk(src))[k].filepath]
            files == AllFiles(from_file(out).root)
            unlisted == {k \in 1..Len(paths) : ~InListing(UsedListing, paths[k])}
            start == FallbackStart(UsedListing)
        IN  /\ {files[k].fileid : k \in unlisted}
                = start..(start + Cardinality(unlisted) - 1)
            /\ \A k \in unlisted : files[k].fileid \notin ListedIds(UsedListing)

\* ---------------------------------------------------------------- header fields

\* n rounded up to a multiple of 32.
Aligned(n) == ((n + 31) \div 32) * 32

\* The number of entry records of the directories of a walk: one for each
\* file and subdirectory and two more for each directory.
RECURSIVE EntryRecords(_)
EntryRecords(w) ==
    IF w = <<>> THEN 0
    ELSE Len(Head(w).dirnames) + Len(Head(w).filenames) + 2 + EntryRecords(Tail(w))

\* The number of entry records the loop over dirlist writes: for every
\* entry of the walk the files, the subdirectories and the two special
\* entries of the directory that self[dirpath] gave.
RECURSIVE dirlist_records(_, _)
dirlist_records(root, w) ==
    IF w = <<>> THEN 0
    ELSE LET got == archive_getitem(root, Head(w).dirpath)
         IN  Len(DirAt(root, got.ref).files) + Len(DirAt(root, got.ref).subdirs) + 2
             + dirlist_records(root, Tail(w))

\* The names of a walk.
RECURSIVE NameSet(_)
NameSet(w) ==
    IF w = <<>> THEN {}
    ELSE {Head(w).dirnames[k] : k \in 1..Len(Head(w).dirnames)}
         \cup {Head(w).filenames[k] : k \in 1..Len(Head(w).filenames)}
         \cup NameSet(Tail(w))

\* The bytes the strings of a set take in the string table.
RECURSIVE EncodedSize(_)
EncodedSize(strings) ==
    IF strings = {} THEN 0
    ELSE LET string == CHOOSE string \in strings : TRUE
         IN  Len(sjis_encode(string)) + 1 + EncodedSize(strings \ {string})

\* Where write_arc writes the tables of a tree: the entries after the
\* header and the node records, the string table after the entry records
\* written, the data after the string table.
EntriesAt(w) == Aligned(64 + 16 * Len(w))
StringsAt(root, w) == Aligned(EntriesAt(w) + 20 * dirlist_records(root, w))
DataAt(root, w) ==
    Aligned(StringsAt(root, w) + EncodedSize({Dot, DotDot, root.name} \cup NameSet(w)))

Field(buf, offset) == read_uint32(ReadAt(buf, offset, 4))

\* The 20-byte entry records of an archive, read from its bytes: the
\* records from the start of the entry table up to the string table; a
\* record has a flag byte, the padding behind the last record has none.
EntriesWritten(buf) ==
    LET at == Field(buf, 44) + 32
        slots == IF Field(buf, 52) + 32 > Len(buf) \/ Field(buf, 52) + 32 < at THEN 0
                 ELSE (Field(buf, 52) + 32 - at) \div 20
        records == [j \in 1..slots |->
                      [flags |-> buf[at + 20 * (j - 1) + 5],
                       offset |-> Field(buf, at + 20 * (j - 1) + 8),
                       size |-> Field(buf, at + 20 * (j - 1) + 12)]]
    IN  SelectSeq(records, LAMBDA r : r.flags # 0)

\* C20 as stated: when write_arc has returned, the header holds no
\* placeholder, the size of the output, the offsets (less 0x20) of the data,
\* of the entries and of the string table where they were written, the size
\* of the data twice, the number of directories, and as the number of
\* entries the sum over the directories of files + subdirectories + 2, which
\* is the number of entry records written.
C20_Backpatched ==
    Written =>
        LET w == root_walk(src)
        IN  /\ ReadAt(out, 4, 4) # <<70, 79, 79, 32>>
            /\ ReadAt(out, 12, 4) # <<66, 65, 82, 32>>
            /\ ReadAt(out, 44, 4) # <<240, 240, 240, 240>>
            /\ ReadAt(out, 52, 4) # <<240, 240, 240, 240>>
            /\ Field(out, 4) = Len(out)
            /\ Field(out, 12) + 32 = DataAt(src, w)
            /\ Field(out, 16) = Len(out) - DataAt(src, w)
            /\ Field(out, 20) = Len(out) - DataAt(src, w)
            /\ Field(out, 44) + 32 = EntriesAt(w)
            /\ Field(out, 52) + 32 = StringsAt(src, w)
            /\ ReadAt(out, StringsAt(src, w), 5) = <<46, 0, 46, 46, 0>>
            /\ Field(out, 32) = Len(w)
            /\ Field(out, 40) = EntryRecords(w)
            /\ Field(out, 40) = Len(EntriesWritten(out))

\* ---------------------------------------------------------------- alignment

\* The entry records of an archive that are file records, in the order of
\* the table: [flags, offset, size] as recorded.
FileRecords(buf) ==
    SelectSeq(EntriesWritten(buf), LAMBDA r : ~HasBit(r.flags, DIRECTORY))

\* write_arc stores the file of its k-th file entry as the tool returns it.
ToolStored(k) ==
    LET paths == [j \in 1..Len(dirlist_files(src, root_walk(src))) |->
                    dirlist_files(src, root_walk(src))[j].filepath]
    IN  /\ session.settings.wszst
        /\ InListing(UsedListing, paths[k])
        /\ UsedListing[paths[k]].meta.is_yaz0
        /\ UsedListing[paths[k]].meta.is_compressed

\* The bytes write_arc stores for its k-th file entry: the content of the
\* file, or what the tool made of it.
StoredBytes(k) ==
    IF ToolStored(k)
    THEN run_wszst(session.settings,
                   dirlist_files(src, root_walk(src))[k].file.data, session.run).data
    ELSE dirlist_files(src, root_walk(src))[k].file.data

\* C21: in the bytes write_arc returns, the entries, the string table and
\* the data start at multiples of 32, every file's data offset is a
\* multiple of 32, and every file's size field is the length of the bytes
\* stored for it, which lie at its offset; the padding that follows them,
\* up to the next multiple of 32, is not counted.
C21_Aligned ==
    Written =>
        LET records == FileRecords(out)
            data_at == Field(out, 12) + 32
        IN  /\ (Field(out, 44) + 32) % 32 = 0
            /\ (Field(out, 52) + 32) % 32 = 0
            /\ data_at % 32 = 0
            /\ Len(records) = Len(dirlist_files(src, root_walk(src)))
            /\ \A k \in 1..Len(records) :
                /\ records[k].offset % 32 = 0
                /\ records[k].size = Len(StoredBytes(k))
                /\ ReadAt(out, data_at + records[k].offset, records[k].size)
                    = StoredBytes(k)
                /\ Aligned(records[k].size)
                    = (IF k < Len(records) THEN records[k + 1].offset
                       ELSE Len(out) - data_at)
                      - records[k].offset

\* An archive with two files that have content has been written, the
\* first as the tool returned it, shorter than the file; the second file's
\* data lie 32 bytes after the first's.
C21_Witness ==
    /\ Written
    /\ Len(AllFiles(src)) = 2
    /\ \A k \in 1..2 : AllFiles(src)[k].data # <<>>
    /\ ToolStored(1)
    /\ FileRecords(out)[1].size < Len(AllFiles(src)[1].data)
    /\ FileRecords(out)[2].offset = 32
    /\ FileRecords(out)[2].size \in {1, 2}

\* ---------------------------------------------------------------- insert, then look up

\* The names lead from dir through existing subdirectories to a directory
\* that holds the last name neither as a file nor as a subdirectory.
RECURSIVE Free(_, _)
Free(dir, path_names) ==
    IF Len(path_names) = 1 THEN
        ~HasName(dir.subdirs, path_names[1]) /\ ~HasName(dir.files, path_names[1])
    ELSE /\ HasName(dir.subdirs, path_names[1])
         /\ Free(dir.subdirs[IndexOf(dir.subdirs, path_names[1])], Tail(path_names))

\* The insertion h has a path whose intermediate directories exist and
\* whose last name is not used.
Insertable(h) ==
    LET path_names == PathNames(h.path)
    IN  \/ /\ h.op = "Directory.__setitem__"
           /\ Free(h.before, path_names)
        \/ /\ h.op = "Archive.__setitem__"
           /\ Len(path_names) > 1
           /\ path_names[1] = h.before.name
           /\ Free(h.before, Tail(path_names))

\* The File or Directory that a lookup with the result r returned.
Found(root, r) ==
    IF r.kind = "file" THEN DirAt(root, r.ref).files[r.index]
    ELSE DirAt(root, r.ref)

\* The lookup of path through the accessor of the insertion h.
Lookup(h, root, path) ==
    IF h.op = "Archive.__setitem__" THEN archive_getitem(root, path)
    ELSE dir_getitem(root, <<>>, path)

\* C22 as stated: an insertion at a path whose intermediate directories
\* exist and whose last name is not used succeeds, the lookup of the path
\* then returns the entry, and the lookups of the paths with other names
\* find what they found before.
C22_InsertThenLookup ==
    Len(hist) = 2 /\ Insertable(hist[1]) =>
        /\ hist[1].err = NoErr
        /\ hist[2].err = NoErr
        /\ hist[2].found.kind = (IF hist[1].entry.type = "File" THEN "file" ELSE "dir")
        /\ Found(tree, hist[2].found).files = hist[1].entry.value.files
        /\ \A path \in TreePaths :
            LET before == Lookup(hist[1], hist[1].before, path)
                after == Lookup(hist[1], tree, path)
            IN  PathNames(path) # PathNames(hist[1].path) =>
                    /\ after.err = before.err
                    /\ after.kind = before.kind

\* ---------------------------------------------------------------- the other writers

\* C23 as stated: write_arc_uncompressed writes the bytes that write_arc
\* writes for the same tree, override table and maxindex under the default
\* settings.
C23_UncompressedIsWriteArc ==
    hist # <<>> /\ hist[1].op = "write_arc_uncompressed" /\ err = NoErr =>
        out = write_arc(src, CompressionSetting(FALSE, FALSE), filelisting,
                        main_maxindex(session.lines),
                        [as_main |-> session.as_main, run |-> session.run]).bytes

\* C24 as stated: a call of write_arc_compressed that returns has written
\* an archive, so what it wrote is not empty, whichever of yaz0_fast and
\* wszst are set.
C24_CompressedNeverEmpty ==
    hist # <<>> /\ hist[1].op = "write_arc_compressed" /\ err = NoErr =>
        out # <<>>

====
